---- MODULE Spec2Model ----
(***************************************************************************)
(* Model of the semantic text toolkit: the vector mathematics              *)
(* (utils/vector), the similarity index (search/SemanticSearch) and the    *)
(* embedding engine (engine/SemanticEngine): its calls as the index sees   *)
(* them, and its own initialization, embed and embedBatch.                 *)
(*                                                                         *)
(* JavaScript arrays and objects are references.  An array of the index    *)
(* is reachable from one place at a time between two steps (the field      *)
(* this.indexedItems, or the local originalIndex of one searchWithFilter   *)
(* call: the call takes the field's array and gives the field a new one,   *)
(* and gives the array back when it ends), and exportIndex and importIndex *)
(* copy the array they return or receive, so each of these places, and     *)
(* the caller for the array it keeps, holds its array's contents.  The     *)
(* IndexedItem records are shared between arrays (filter and the spread    *)
(* operator copy references), so the arrays hold record ids and the        *)
(* records live in a heap.  Record ids are renumbered after every step in  *)
(* the order in which the arrays reach them, and unreachable records are   *)
(* reset: a program observes neither.                                      *)
(*                                                                         *)
(* Numbers: the model's embeddings have integer components and integer     *)
(* magnitudes, so that Math.sqrt is exact on them; a score is the exact    *)
(* quotient num/den, and -Infinity is -1/0.                                *)
(***************************************************************************)
EXTENDS Integers, Sequences, FiniteSets, TLC

\* ------------------------------------------------------------------ bounds
\* longest stored sequence the model lets index() and the caller build
MaxLen == 3
\* longest items argument of one index() call
MaxBatch == 2
\* number of IndexedItem records alive at once
MaxRecs == 4
\* number of writes the caller makes to the arrays and records it holds
MaxWrites == 2
\* number of calls of the engine in flight at once
MaxCallers == 3
\* number of times the engine invokes the model loader
MaxLoads == 2
\* the iterations of embedBatch's loop a call is followed for
MaxIterations == 4

\* ------------------------------------------------- program constants
\* constructor: config.topK ?? 10
DefaultTopK == 10
\* constructor: config.threshold ?? 0
DefaultThresholdNum == 0

\* ------------------------------------------------------------ result values
\* the details of a SemanticError constructed without its third argument
NoDetails == [undefined |-> TRUE]
\* a call either returns a value or throws a SemanticError(code, message,
\* details)
Ok(v) == [ok |-> TRUE, val |-> v, code |-> "none", msg |-> "none", details |-> NoDetails]
ErrWith(c, m, d) == [ok |-> FALSE, val |-> <<>>, code |-> c, msg |-> m, details |-> d]
Err(c, m) == ErrWith(c, m, NoDetails)

\* ------------------------------------------------------------------ numbers
\* the exact quotient n/d (d > 0), or -Infinity when d = 0 and n < 0
Num(n, d) == [num |-> n, den |-> d]
NegInf == Num(-1, 0)
\* a < b on quotients, as IEEE comparison gives it (also for -Infinity)
Lt(a, b) == a.num * b.den < b.num * a.den
Geq(a, b) == ~Lt(a, b)
\* Math.sqrt on a perfect square
Sqrt(n) == CHOOSE r \in 0..n : r * r <= n /\ (r + 1) * (r + 1) > n

\* ------------------------------------------------------- utils/vector.ts
RECURSIVE SumProdShort(_, _, _)
\* a loop with the bound i < a.length - 1, which leaves the last product out
SumProdShort(a, b, i) ==
  IF i >= Len(a) THEN 0 ELSE a[i] * b[i] + SumProdShort(a, b, i + 1)

RECURSIVE SumProd(_, _, _)
\* the loop for (i = 0; i < a.length; i++) sum += a[i] * b[i], from index i
SumProd(a, b, i) == IF i > Len(a) THEN 0 ELSE a[i] * b[i] + SumProd(a, b, i + 1)

validateDimensions(a, b) ==
  IF Len(a) # Len(b)
  THEN ErrWith("DIMENSION_MISMATCH",
               "Embedding dimensions must match. Got " \o ToString(Len(a))
                 \o " and " \o ToString(Len(b)),
               [dimensions |-> <<Len(a), Len(b)>>])
  ELSE Ok(<<>>)

validateEmbedding(embedding, name) ==
  IF Len(embedding) = 0
  THEN ErrWith("INVALID_INPUT", name \o " must be a non-empty array",
               [length |-> Len(embedding)])
  ELSE Ok(<<>>)

dotProduct(a, b) ==
  IF ~validateEmbedding(a, "first embedding").ok
  THEN validateEmbedding(a, "first embedding")
  ELSE IF ~validateEmbedding(b, "second embedding").ok
  THEN validateEmbedding(b, "second embedding")
  ELSE IF ~validateDimensions(a, b).ok THEN validateDimensions(a, b)
  ELSE Ok(SumProd(a, b, 1))

magnitude(vector) ==
  IF ~validateEmbedding(vector, "embedding").ok
  THEN validateEmbedding(vector, "embedding")
  ELSE Ok(Sqrt(SumProd(vector, vector, 1)))

\* the quotient without the test of the magnitudes
cosineSimilarityUnguarded(a, b) ==
  IF ~dotProduct(a, b).ok THEN dotProduct(a, b)
  ELSE Ok(Num(dotProduct(a, b).val, magnitude(a).val * magnitude(b).val))

cosineSimilarity(a, b) ==
  IF ~validateEmbedding(a, "first embedding").ok
  THEN validateEmbedding(a, "first embedding")
  ELSE IF ~validateEmbedding(b, "second embedding").ok
  THEN validateEmbedding(b, "second embedding")
  ELSE IF ~validateDimensions(a, b).ok THEN validateDimensions(a, b)
  ELSE LET dot == dotProduct(a, b).val
           magA == magnitude(a).val
           magB == magnitude(b).val
       IN IF magA = 0 \/ magB = 0
          THEN ErrWith("COMPUTATION_FAILED",
                       "Cannot compute cosine similarity with zero-magnitude vector",
                       [magnitudes |-> <<magA, magB>>])
          ELSE Ok(Num(dot, magA * magB))

RECURSIVE SumSqDiff(_, _, _)
\* the loop diff = a[i] - b[i]; sum += diff * diff, from index i
SumSqDiff(a, b, i) ==
  IF i > Len(a) THEN 0
  ELSE (a[i] - b[i]) * (a[i] - b[i]) + SumSqDiff(a, b, i + 1)

euclideanDistance(a, b) ==
  IF ~validateEmbedding(a, "first embedding").ok
  THEN validateEmbedding(a, "first embedding")
  ELSE IF ~validateEmbedding(b, "second embedding").ok
  THEN validateEmbedding(b, "second embedding")
  ELSE IF ~validateDimensions(a, b).ok THEN validateDimensions(a, b)
  ELSE Ok(Sqrt(SumSqDiff(a, b, 1)))

normalize(vector) ==
  IF ~validateEmbedding(vector, "embedding").ok
  THEN validateEmbedding(vector, "embedding")
  ELSE LET mag == magnitude(vector).val
       IN IF mag = 0
          THEN Err("COMPUTATION_FAILED", "Cannot normalize zero-magnitude vector")
          ELSE Ok([i \in 1..Len(vector) |-> Num(vector[i], mag)])

RECURSIVE ColumnSum(_, _, _)
\* result[i] after the loop over embeddings[n], embeddings[n + 1], ...:
\* result[i] += embedding[i]
ColumnSum(embeddings, i, n) ==
  IF n > Len(embeddings) THEN 0
  ELSE embeddings[n][i] + ColumnSum(embeddings, i, n + 1)

\* a centroid that returns the sums, without result.map(v => v / length)
centroidSums(embeddings) ==
  IF Len(embeddings) = 0
  THEN Err("INVALID_INPUT", "Cannot compute centroid of empty array")
  ELSE IF \E n \in 1..Len(embeddings) : Len(embeddings[n]) # Len(embeddings[1])
  THEN Err("DIMENSION_MISMATCH", "All embeddings must have same dimensions")
  ELSE Ok([i \in 1..Len(embeddings[1]) |-> Num(ColumnSum(embeddings, i, 1), 1)])

centroid(embeddings) ==
  IF Len(embeddings) = 0
  THEN Err("INVALID_INPUT", "Cannot compute centroid of empty array")
  ELSE LET dim == Len(embeddings[1])
       IN IF \E n \in 1..Len(embeddings) : Len(embeddings[n]) # dim
          THEN Err("DIMENSION_MISMATCH", "All embeddings must have same dimensions")
          ELSE Ok([i \in 1..dim |->
                     Num(ColumnSum(embeddings, i, 1), Len(embeddings))])

\* a catch clause that gives the candidate the score 0
SimilaritiesZeroOnFailure(query, candidates) ==
  [i \in 1..Len(candidates) |->
     LET s == cosineSimilarity(query, candidates[i])
     IN <<i - 1, IF s.ok THEN s.val ELSE Num(0, 1)>>]

\* candidates.map((candidate, idx) => [idx, cosine or -Infinity]); idx is
\* the 0-based position of the candidate
Similarities(query, candidates) ==
  [i \in 1..Len(candidates) |->
     LET s == cosineSimilarity(query, candidates[i])
     IN <<i - 1, IF s.ok THEN s.val ELSE NegInf>>]

RECURSIVE InsertAsc(_, _)
\* a comparator written the other way round, (a, b) => a[1] - b[1]
InsertAsc(s, p) ==
  IF s = <<>> THEN <<p>>
  ELSE IF Lt(p[2], Head(s)[2]) THEN <<p>> \o s
  ELSE <<Head(s)>> \o InsertAsc(Tail(s), p)

RECURSIVE InsertDescBeforeTies(_, _)
\* a sort that is not stable: a pair goes before the pairs of its score
InsertDescBeforeTies(s, p) ==
  IF s = <<>> THEN <<p>>
  ELSE IF ~Lt(p[2], Head(s)[2]) THEN <<p>> \o s
  ELSE <<Head(s)>> \o InsertDescBeforeTies(Tail(s), p)

RECURSIVE InsertDesc(_, _)
\* place pair p in the descending sequence s behind every pair that does
\* not compare after it: comparator (a, b) => b[1] - a[1], NaN taken as 0
InsertDesc(s, p) ==
  IF s = <<>> THEN <<p>>
  ELSE IF Lt(Head(s)[2], p[2]) THEN <<p>> \o s
  ELSE <<Head(s)>> \o InsertDesc(Tail(s), p)

\* a sort that was left out
Unsorted(s, n) == s

RECURSIVE SortDesc(_, _)
\* Array.prototype.sort is stable: insertion of s[1], s[2], ... in turn
SortDesc(s, n) == IF n = 0 THEN <<>> ELSE InsertDesc(SortDesc(s, n - 1), s[n])

Min(a, b) == IF a <= b THEN a ELSE b

topKSimilar(query, candidates, k) ==
  IF ~validateEmbedding(query, "query").ok THEN validateEmbedding(query, "query")
  ELSE IF Len(candidates) = 0 THEN Ok(<<>>)
  ELSE IF k <= 0 THEN ErrWith("INVALID_INPUT", "k must be positive", [k |-> k])
  ELSE LET similarities == SortDesc(Similarities(query, candidates), Len(candidates))
       IN Ok(SubSeq(similarities, 1, Min(k, Len(similarities))))

\* ------------------------------------------------------------ the data
\* items of type T: documents, as in the searchWithFilter tests
Doc(t, c) == [text |-> t, category |-> c]
Docs == {Doc("a", "x"), Doc("b", "y")}
\* the texts of the documents, also the query texts
Texts == {"a", "b"}

\* the embedding model, a black box text -> vector of the model's dimension
ModelOutput(t) == IF t = "a" THEN <<1, 0>> ELSE <<3, 4>>

\* metadata: a mapping (a set of key/value pairs), or undefined
Meta(m) == [has |-> TRUE, map |-> m]
Undefined == [has |-> FALSE, map |-> {}]

\* the two extractors a SearchConfig may carry
\* textExtractor: (doc) => doc.text
textExtractor(item) == item.text
\* metadataExtractor: the default () => ({}) or (doc) => ({category: doc.category})
metadataExtractor(name, item) ==
  IF name = "byCategory" THEN Meta({<<"category", item.category>>}) ELSE Meta({})

\* a (partial) SearchConfig argument: absent fields carry has* = FALSE
Partial(hasK, k, hasT, t, hasM, m) ==
  [hasTopK |-> hasK, topK |-> k, hasThreshold |-> hasT, threshold |-> t,
   hasMeta |-> hasM, metadataExtractor |-> m]
NoConfig == Partial(FALSE, 0, FALSE, Num(0, 1), FALSE, "default")

\* the config arguments given to the constructor
ConstructorInputs ==
  { NoConfig,
    Partial(FALSE, 0, FALSE, Num(0, 1), TRUE, "byCategory"),
    Partial(TRUE, 1, TRUE, Num(4, 5), TRUE, "byCategory") }

\* the overrideConfig arguments given to search
Overrides ==
  { NoConfig,
    Partial(TRUE, 1, FALSE, Num(0, 1), FALSE, "default"),
    Partial(TRUE, 0, FALSE, Num(0, 1), FALSE, "default"),
    Partial(FALSE, 0, TRUE, Num(4, 5), FALSE, "default"),
    Partial(TRUE, 2, TRUE, Num(-1, 1), FALSE, "default"),
    Partial(FALSE, 0, TRUE, NegInf, FALSE, "default") }
\* the config arguments given to searchWithFilter and findSimilar
DelegatedOverrides ==
  { NoConfig,
    Partial(TRUE, 1, FALSE, Num(0, 1), FALSE, "default"),
    Partial(TRUE, 2, TRUE, Num(-1, 1), FALSE, "default") }

\* metadata predicates given to searchWithFilter
Pred(k, v) == [kind |-> k, value |-> v]
Filters == {Pred("all", ""), Pred("category", "x"), Pred("category", "z")}
\* filter(metadata): () => true, or (m) => m.category === value
filter(f, m) == f.kind = "all" \/ <<"category", f.value>> \in m

\* the items argument of index(): an array of documents, or not an array
Arr(s) == [isArray |-> TRUE, elems |-> s]
NotArray == [isArray |-> FALSE, elems |-> <<>>]
RECURSIVE SeqsUpTo(_, _)
SeqsUpTo(S, n) ==
  IF n = 0 THEN {<<>>}
  ELSE LET shorter == SeqsUpTo(S, n - 1)
       IN shorter \cup {Append(s, x) : s \in shorter, x \in S}
ItemsInputs == {Arr(s) : s \in SeqsUpTo(Docs, MaxBatch)} \cup {NotArray}

\* an IndexedItem record
Rec(i, e, m) == [item |-> i, embedding |-> e, metadata |-> m]
Blank == Rec(Doc("", ""), <<>>, Undefined)
\* records a caller writes by hand to import them: one without metadata,
\* whose embedding points away from the model's, and one whose embedding
\* has another dimension than the model's
CallerRecs ==
  { Rec(Doc("c", "x"), <<-1, 0>>, Undefined),
    Rec(Doc("d", "y"), <<1>>, Meta({<<"category", "x">>})) }
CallerSeqs == SeqsUpTo(CallerRecs, MaxBatch)

\* ------------------------------------------------------------ the heap
\* the asynchronous calls that can be in flight on the one index instance
CallIds == {"c1", "c2"}
CallOrder == <<"c1", "c2">>
RecIds == 1..MaxRecs

VARIABLES
  ctor,          \* the config argument the constructor was given
  config,        \* this.config, set by the constructor
  indexedItems,  \* this.indexedItems: the record ids its array holds
  recs,          \* heap: record id -> IndexedItem
  calls,         \* the asynchronous calls in flight and their locals
  ret,           \* the call (or caller's statement) that settled in the last
                 \* step, with its outcome
  held,          \* the array of records the caller holds: the one exportIndex
                 \* returned, or the one it wrote and gives to importIndex
  pure,          \* the last application of a function that has no state
  engine         \* the SemanticEngine: its fields, the loads it started, its
                 \* calls in flight and the call that settled in the last step

vars == <<ctor, config, indexedItems, recs, calls, ret, held, pure, engine>>

\* the records behind a sequence of record ids
Items(ids, rcs) == [i \in 1..Len(ids) |-> rcs[ids[i]]]
StoredItems == Items(indexedItems, recs)

Range(s) == {s[i] : i \in 1..Len(s)}

\* a call slot: operation, arguments, locals, position, and the history
\* fields pre and preItems, the stored sequence and its records when the
\* call began, alone, whether no other operation has run on the index
\* since the call began, and appended, the records that index() calls which
\* completed during a searchWithFilter call pushed, as far as no clear(),
\* importIndex or index(..., true) has come since
Idle ==
  [op |-> "idle", pc |-> "idle", items |-> NotArray, replace |-> FALSE,
   query |-> "", filter |-> Pred("all", ""), override |-> NoConfig,
   config |-> [topK |-> 0, threshold |-> Num(0, 1)],
   originalIndex |-> <<>>, pending |-> Ok(<<>>), pre |-> <<>>, preItems |-> <<>>,
   alone |-> TRUE, appended |-> <<>>]
NoRet == [call |-> Idle, result |-> Ok(<<>>)]
Settled(call, result) == [call |-> call, result |-> result]
NoCall == \A c \in CallIds : calls[c].op = "idle"

\* the caller's array: from is the operation that last tied it to the index
\* ("export", "import") or "caller" for an array the caller wrote; the
\* history fields stage and snapItems follow the sequence exportIndex,
\* clear, importIndex: "exported" with the records the index held then,
\* "cleared" after a clear() that came next, "restored" after an importIndex
\* of the array that came next, "other" once anything else has happened;
\* writes counts the caller's writes to its arrays and their records
NoHeld == [from |-> "none", ids |-> <<>>, stage |-> "none", snapItems |-> <<>>, writes |-> 0]
Stale(h) == IF h.from = "none" THEN h ELSE [h EXCEPT !.stage = "other", !.snapItems = <<>>]
\* no function has been applied
NoPure == [fn |-> "none", args |-> <<>>, out |-> <<>>]

\* the engine's calls in flight
EngineCallIds == 1..MaxCallers
\* a text argument: a string, or a value of another type
Str(s) == [type |-> "string", value |-> s]
NotAString == [type |-> "number", value |-> "5"]
\* an engine call with its locals: op and pc say where it stands, load is the
\* initialization promise it awaits or returned, started whether it invoked
\* the loader, invoked how often it invoked the model; an embedBatch call has
\* texts, batchSize, the loop counter i, results, and for the chunk it awaits
\* the state of each embed promise (chunk) and the first rejection among
\* them; order lists the texts' positions as their model calls ended;
\* onProgress says whether the options hold the callback, and progress lists
\* the calls it got: its arguments, and what the call had submitted to the
\* model (invoked) and got back from it (order) by then
NoRejection == Ok(<<>>)
EngineIdle ==
  [op |-> "idle", pc |-> "idle", load |-> 0, started |-> FALSE, invoked |-> 0,
   text |-> Str(""), texts |-> <<>>, batchSize |-> 0, i |-> 0, results |-> <<>>,
   chunk |-> <<>>, rejection |-> NoRejection, order |-> <<>>,
   onProgress |-> FALSE, progress |-> <<>>]
\* no engine call settled in the last step
NoLast == [call |-> EngineIdle, result |-> Ok(<<>>)]
\* the engine after its constructor: model and initializationPromise null.
\* loads[n] is the promise of the n-th _performInitialization call: its
\* state, whether the initialize call awaiting it has resumed, and whether
\* dispose() was called since it started (stale); disposed says whether
\* dispose() was ever called
NewEngine ==
  [model |-> FALSE, initializationPromise |-> 0, loads |-> <<>>,
   calls |-> [c \in EngineCallIds |-> EngineIdle], last |-> NoLast,
   disposed |-> FALSE]

\* the record ids the arrays reach, in the order they reach them: the
\* originalIndex of each call, then the index field, then the caller's array
RECURSIVE Dedup(_, _)
Dedup(s, seen) ==
  IF s = <<>> THEN <<>>
  ELSE IF Head(s) \in seen THEN Dedup(Tail(s), seen)
  ELSE <<Head(s)>> \o Dedup(Tail(s), seen \cup {Head(s)})
Reached(ind, cs, h) ==
  Dedup(cs[CallOrder[1]].originalIndex \o cs[CallOrder[2]].originalIndex \o ind \o h.ids, {})
\* the id record r gets: its place in that order, 0 once nothing reaches it
Renumber(order, ids) ==
  [i \in 1..Len(ids) |->
     IF ids[i] \in Range(order) THEN CHOOSE n \in 1..Len(order) : order[n] = ids[i] ELSE 0]
RenumberCall(order, call) ==
  [call EXCEPT !.originalIndex = Renumber(order, @), !.pre = Renumber(order, @)]

\* a step of call c, or of a synchronous operation (c is then no call), is
\* another operation for every other call in flight: such a call is no
\* longer alone, and the index it found is no longer remembered for it
Disturb(c, cs) ==
  [d \in CallIds |->
     IF d # c /\ cs[d].op # "idle"
     THEN [cs[d] EXCEPT !.alone = FALSE, !.pre = <<>>, !.preItems = <<>>]
     ELSE cs[d]]

\* new IndexedItem objects: n ids no array holds yet, and the heap with
\* the records news under them (the step's renumbering brings them back
\* among the record ids, if the heap has room)
NewIds(n) == [i \in 1..n |-> MaxRecs + i]
Allocate(news) ==
  [r \in 1..(MaxRecs + Len(news)) |-> IF r > MaxRecs THEN news[r - MaxRecs] ELSE recs[r]]

\* every step ends by writing the whole state: index array ind, heap rcs,
\* calls cs, outcome r and caller's array h
CommitAll(c, ind, rcs, cs, r, h) ==
  LET order == Reached(ind, cs, h)
  IN /\ Len(order) <= MaxRecs
     /\ indexedItems' = Renumber(order, ind)
     /\ recs' = [n \in RecIds |-> IF n <= Len(order) THEN rcs[order[n]] ELSE Blank]
     /\ calls' = [d \in CallIds |-> RenumberCall(order, Disturb(c, cs)[d])]
     /\ ret' = [r EXCEPT !.call = RenumberCall(order, @)]
     /\ held' = [h EXCEPT !.ids = Renumber(order, @)]
     /\ UNCHANGED <<ctor, config, pure, engine>>

\* a step of an operation of the index that is no part of the sequence
\* exportIndex, clear, importIndex
Commit(c, ind, rcs, cs, r) == CommitAll(c, ind, rcs, cs, r, Stale(held))

\* the slot a new call takes: the first that is idle
FreeSlot(c) == /\ calls[c].op = "idle"
               /\ \A i \in 1..Len(CallOrder) :
                    calls[CallOrder[i]].op = "idle" =>
                      \E j \in 1..i : CallOrder[j] = c

\* ------------------------------------------------- search/SemanticSearch.ts
\* constructor: each field is the argument's, or its default
Constructor(arg) ==
  [topK |-> IF arg.hasTopK THEN arg.topK ELSE DefaultTopK,
   threshold |-> IF arg.hasThreshold THEN arg.threshold ELSE Num(DefaultThresholdNum, 1),
   metadataExtractor |-> IF arg.hasMeta THEN arg.metadataExtractor ELSE "default"]

Init ==
  /\ ctor \in ConstructorInputs
  /\ config = Constructor(ctor)
  /\ indexedItems = <<>>
  /\ recs = [r \in RecIds |-> Blank]
  /\ calls = [c \in CallIds |-> Idle]
  /\ ret = NoRet
  /\ held = NoHeld
  /\ pure = NoPure
  /\ engine = NewEngine

\* the spread written the other way round: the stored config wins
MergeConfigStoredWins(cfg, ov) == [topK |-> cfg.topK, threshold |-> cfg.threshold]

\* { ...this.config, ...overrideConfig }: the override wins per field
MergeConfig(cfg, ov) ==
  [topK |-> IF ov.hasTopK THEN ov.topK ELSE cfg.topK,
   threshold |-> IF ov.hasThreshold THEN ov.threshold ELSE cfg.threshold]

\* a validation that forgot the length test
InvalidItemsNotArrayOnly(items) == ~items.isArray

\* !Array.isArray(items) || items.length === 0
InvalidItems(items) == ~items.isArray \/ Len(items.elems) = 0

\* every record given the first result's embedding
NewIndexItemsFirstResult(items, results, extractor) ==
  [idx \in 1..Len(items) |->
     Rec(items[idx], results[1].embedding, metadataExtractor(extractor, items[idx]))]

\* items.map((item, idx) => ({item, embedding: results[idx].embedding,
\*                            metadata: metadataExtractor(item)}))
NewIndexItems(items, results, extractor) ==
  [idx \in 1..Len(items) |->
     Rec(items[idx], results[idx].embedding, metadataExtractor(extractor, items[idx]))]

\* engine.embed(text) and engine.embedBatch(texts) as the index sees them:
\* the model's output, or a failure of the engine (the index hands the error
\* on as it is and reads no details of it, which are left out here)
EmbeddingResult(t) == [embedding |-> ModelOutput(t), text |-> t]
EngineFailures ==
  { Err("MODEL_NOT_LOADED", "Model not initialized. Call initialize() first."),
    Err("EMBEDDING_FAILED", "Failed to generate embedding: Unknown error") }
EmbedOutcomes(t) == {Ok(EmbeddingResult(t))} \cup EngineFailures
EmbedBatchOutcomes(texts) ==
  IF Len(texts) = 0
  THEN { Err("MODEL_NOT_LOADED", "Model not initialized. Call initialize() first."),
         Err("INVALID_INPUT", "Texts must be a non-empty array") }
  ELSE {Ok([i \in 1..Len(texts) |-> EmbeddingResult(texts[i])])} \cup EngineFailures

\* ---- index(items, replace)
\* clear(), importIndex and the replace step of index() remove the stored
\* entries: the calls in flight have none left that they saw appended
Forget(cs) == [d \in CallIds |-> [cs[d] EXCEPT !.appended = <<>>]]

\* a replace flag that is ignored
IndexTargetKeep(replace, current) == current

\* a replace step taken whatever the flag says
IndexTargetAlways(replace, current) == <<>>

\* if (replace) this.indexedItems = []: the contents later pushed to
IndexTarget(replace, current) == IF replace THEN <<>> ELSE current

\* a partial application: a failed batch still leaves a record of the
\* first item, without embedding
PushedItemsPartial(outcome, items, extractor) ==
  IF outcome.ok THEN NewIndexItems(items, outcome.val, extractor)
  ELSE <<Rec(items[1], <<>>, metadataExtractor(extractor, items[1]))>>

\* the records index() pushes once the batch request has settled: none when
\* it failed, since the await throws
PushedItems(outcome, items, extractor) ==
  IF outcome.ok THEN NewIndexItems(items, outcome.val, extractor) ELSE <<>>

\* index(): validation, the replace step and the batch request
StartIndex(c, items, replace) ==
  /\ FreeSlot(c)
  /\ LET call == [Idle EXCEPT !.op = "index", !.items = items,
                              !.replace = replace, !.pre = indexedItems,
                              !.preItems = StoredItems]
     IN IF InvalidItems(items)
        THEN Commit(c, indexedItems, recs, calls,
                    Settled(call, Err("INVALID_INPUT", "Items must be a non-empty array")))
        ELSE Commit(c, IndexTarget(replace, indexedItems), recs,
                    [IF replace THEN Forget(calls) ELSE calls
                       EXCEPT ![c] = [call EXCEPT !.pc = "embedBatch"]], NoRet)

\* index() after await engine.embedBatch(texts): build and push the
\* records; the settled call keeps the outcome of the batch request
ResumeIndex(c, outcome) ==
  /\ calls[c].pc = "embedBatch"
  /\ LET items == calls[c].items.elems
         texts == [i \in 1..Len(items) |-> textExtractor(items[i])]
     IN /\ outcome \in EmbedBatchOutcomes(texts)
        /\ LET new == PushedItems(outcome, items, config.metadataExtractor)
           IN /\ Len(indexedItems) + Len(new) <= MaxLen
              /\ Commit(c, indexedItems \o NewIds(Len(new)), Allocate(new),
                        [d \in CallIds |->
                           IF d = c THEN Idle
                           ELSE IF calls[d].op = "searchWithFilter"
                           THEN [calls[d] EXCEPT !.appended = @ \o new]
                           ELSE calls[d]],
                        Settled([calls[c] EXCEPT !.pending =
                                   IF outcome.ok THEN Ok(<<>>) ELSE outcome],
                                IF outcome.ok THEN Ok(<<>>) ELSE outcome))

\* ---- search(query, overrideConfig)
\* the message of the InvalidInput error of a search on an empty index
IndexEmptyMessage == "Index is empty. Call index() before searching."

\* an emptiness test that was left out
IndexIsEmptyNever(items) == FALSE

\* this.indexedItems.length === 0
IndexIsEmpty(items) == Len(items) = 0

RECURSIVE Results(_, _, _, _, _)
\* the loop over topK from position i with the rank counter at rank
Results(topK, i, rank, items, threshold) ==
  IF i > Len(topK) THEN <<>>
  ELSE IF Lt(topK[i][2], threshold)
       THEN Results(topK, i + 1, rank, items, threshold)
       ELSE <<[item |-> items[topK[i][1] + 1].item, score |-> topK[i][2], rank |-> rank]>>
            \o Results(topK, i + 1, rank + 1, items, threshold)

\* a search that forgot the threshold
SearchBodyNoThreshold(queryEmbedding, items, cfg) ==
  LET candidateEmbeddings == [i \in 1..Len(items) |-> items[i].embedding]
      topK == topKSimilar(queryEmbedding, candidateEmbeddings, cfg.topK)
  IN IF topK.ok THEN Ok(Results(topK.val, 1, 1, items, NegInf)) ELSE topK

\* search() after await engine.embed(query), given the query embedding
SearchBody(queryEmbedding, items, cfg) ==
  LET candidateEmbeddings == [i \in 1..Len(items) |-> items[i].embedding]
      topK == topKSimilar(queryEmbedding, candidateEmbeddings, cfg.topK)
  IN IF topK.ok THEN Ok(Results(topK.val, 1, 1, items, cfg.threshold)) ELSE topK

\* the part of search() before its await: op is the entry point used
SearchCall(c, op, query, ov) ==
  /\ FreeSlot(c)
  /\ LET call == [Idle EXCEPT !.op = op, !.query = query, !.override = ov,
                              !.pre = indexedItems, !.preItems = StoredItems]
     IN IF IndexIsEmpty(indexedItems)
        THEN Commit(c, indexedItems, recs, calls,
                    Settled(call, Err("INVALID_INPUT", IndexEmptyMessage)))
        ELSE Commit(c, indexedItems, recs,
                    [calls EXCEPT ![c] =
                       [call EXCEPT !.pc = "embed", !.config = MergeConfig(config, ov)]],
                    NoRet)

StartSearch(c, query, ov) == SearchCall(c, "search", query, ov)

\* findSimilar(item, config): search(textExtractor(item), config)
StartFindSimilar(c, item, ov) == SearchCall(c, "findSimilar", textExtractor(item), ov)

\* search() resumes with the outcome of engine.embed; inside
\* searchWithFilter its outcome is held until the finally block has run
ResumeSearch(c, outcome) ==
  /\ calls[c].pc = "embed"
  /\ outcome \in EmbedOutcomes(calls[c].query)
  /\ LET result == IF outcome.ok
                   THEN SearchBody(outcome.val.embedding, StoredItems, calls[c].config)
                   ELSE outcome
     IN IF calls[c].op = "searchWithFilter"
        THEN Commit(c, indexedItems, recs,
                    [calls EXCEPT ![c] = [@ EXCEPT !.pc = "finally", !.pending = result]],
                    NoRet)
        ELSE Commit(c, indexedItems, recs, [calls EXCEPT ![c] = Idle],
                    Settled(calls[c], result))

\* ---- searchWithFilter(query, filter, config)
\* a filter that keeps every item
FilterItemsAll(ids, rcs, f) == ids

\* a filter that falls back on the whole index when no entry passes
FilterItemsOrAll(ids, rcs, f) ==
  LET kept == SelectSeq(ids, LAMBDA r : filter(f, IF rcs[r].metadata.has
                                                    THEN rcs[r].metadata.map ELSE {}))
  IN IF kept = <<>> THEN ids ELSE kept

\* a filter that keeps the entries the predicate rejects
FilterItemsNegated(ids, rcs, f) ==
  SelectSeq(ids, LAMBDA r : ~filter(f, IF rcs[r].metadata.has THEN rcs[r].metadata.map ELSE {}))

\* originalIndex.filter(item => filter(item.metadata ?? {}))
FilterItems(ids, rcs, f) ==
  SelectSeq(ids, LAMBDA r : filter(f, IF rcs[r].metadata.has THEN rcs[r].metadata.map ELSE {}))

\* a restoration placed after the await instead of in a finally block
RestoreOnSuccess(originalIndex, current, pending) ==
  IF pending.ok THEN originalIndex ELSE current

\* finally { this.indexedItems = originalIndex }
Restore(originalIndex, current, pending) == originalIndex

StartSearchWithFilter(c, query, f, ov) ==
  /\ FreeSlot(c)
  /\ LET filtered == FilterItems(indexedItems, recs, f)
         call == [Idle EXCEPT !.op = "searchWithFilter", !.query = query,
                              !.filter = f, !.override = ov, !.pre = indexedItems,
                              !.preItems = StoredItems,
                              !.originalIndex = indexedItems]
     IN Commit(c, filtered, recs,
               [calls EXCEPT ![c] =
                  IF IndexIsEmpty(filtered)
                  THEN [call EXCEPT !.pc = "finally",
                                    !.pending = Err("INVALID_INPUT", IndexEmptyMessage)]
                  ELSE [call EXCEPT !.pc = "embed", !.config = MergeConfig(config, ov)]],
               NoRet)

FinishSearchWithFilter(c) ==
  /\ calls[c].pc = "finally"
  /\ Commit(c, Restore(calls[c].originalIndex, indexedItems, calls[c].pending), recs,
            [calls EXCEPT ![c] = Idle], Settled(calls[c], calls[c].pending))

\* ---- the synchronous operations
Sync(op) == [Idle EXCEPT !.op = op, !.pre = indexedItems, !.preItems = StoredItems]

\* ---- getStats()
\* the decimal numeral with two fraction digits of h hundredths (h >= 0)
Decimal2(h) ==
  ToString(h \div 100) \o "." \o ToString((h % 100) \div 10) \o ToString(h % 10)
\* (n / d).toFixed(2) for n >= 0 and d a power of two (the quotient is then an
\* exact double): the numeral with two fraction digits nearest to n / d, the
\* larger one when two are equally near
ToFixed2(n, d) == Decimal2((200 * n + d) \div (2 * d))

\* an estimate that knows one unit only
MemoryEstimateInKB(itemCount, dimensions) ==
  ToFixed2(itemCount * dimensions * 8, 1024) \o " KB"

\* totalBytes = itemCount * dimensions * 8, shown in KB below 1024 * 1024
\* and in MB from there on
MemoryEstimate(itemCount, dimensions) ==
  LET totalBytes == itemCount * dimensions * 8
  IN IF totalBytes < 1024 * 1024
     THEN ToFixed2(totalBytes, 1024) \o " KB"
     ELSE ToFixed2(totalBytes, 1024 * 1024) \o " MB"

\* a dimension taken from the last entry
DimensionsOfLast(items) ==
  IF Len(items) = 0 THEN 0 ELSE Len(items[Len(items)].embedding)

\* this.indexedItems[0]?.embedding.length ?? 0
Dimensions(items) == IF Len(items) = 0 THEN 0 ELSE Len(items[1].embedding)

Stats(items) ==
  [itemCount |-> Len(items),
   dimensions |-> Dimensions(items),
   memoryEstimate |-> MemoryEstimate(Len(items), Dimensions(items))]

\* getStats(): the call returns the one object Stats builds
GetStats ==
  Commit("caller", indexedItems, recs, calls,
         Settled(Sync("getStats"), Ok(<<Stats(StoredItems)>>)))

\* a clear() that forgot the assignment
ClearNothing ==
  CommitAll("caller", indexedItems, recs, Forget(calls), Settled(Sync("clear"), Ok(<<>>)),
            IF held.stage = "exported" THEN [held EXCEPT !.stage = "cleared"] ELSE Stale(held))

\* clear(): this.indexedItems = []
Clear ==
  CommitAll("caller", <<>>, recs, Forget(calls), Settled(Sync("clear"), Ok(<<>>)),
            IF held.stage = "exported" THEN [held EXCEPT !.stage = "cleared"] ELSE Stale(held))

\* return [...this.indexedItems]: a new array that holds the same records
ExportedArray(ids) == ids

\* a copy that stops before the last record
ImportedArrayFront(ids) == IF ids = <<>> THEN <<>> ELSE SubSeq(ids, 1, Len(ids) - 1)

\* this.indexedItems = [...index]: a new array that holds the same records
ImportedArray(ids) == ids

\* importIndex(index) of an array of records the caller wrote and does
\* not keep
ImportIndex(s) ==
  Commit("caller", ImportedArray(NewIds(Len(s))), Allocate(s), Forget(calls),
         Settled(Sync("importIndex"), Ok(<<>>)))

\* ---- the array a caller keeps: exportIndex, importIndex and its own writes
\* const s = search.exportIndex(), the caller keeps s
ExportIndex ==
  CommitAll("caller", indexedItems, recs, calls,
            Settled(Sync("exportIndex"), Ok(Items(ExportedArray(indexedItems), recs))),
            [from |-> "export", ids |-> ExportedArray(indexedItems),
             stage |-> "exported", snapItems |-> StoredItems, writes |-> held.writes])

\* const seq = [record, ...]: the caller writes an array of new records
WriteSeq(s) ==
  CommitAll("caller", indexedItems, Allocate(s), calls, Settled(Sync("write"), Ok(<<>>)),
            [from |-> "caller", ids |-> NewIds(Len(s)), stage |-> "other", snapItems |-> <<>>,
             writes |-> held.writes])

\* search.importIndex(seq) of the array the caller keeps
ImportHeld ==
  /\ held.from # "none"
  /\ CommitAll("caller", ImportedArray(held.ids), recs, Forget(calls),
               Settled(Sync("importIndex"), Ok(<<>>)),
               IF held.stage = "cleared"
               THEN [held EXCEPT !.from = "import", !.stage = "restored"]
               ELSE [Stale(held) EXCEPT !.from = "import"])

\* the statements by which the caller changes its array or a record in it
CallerWrites == {"push", "pop", "setEmbedding", "setMetadata"}

\* seq.push(record), of a new record
PushHeld(r) ==
  /\ held.from # "none"
  /\ held.writes < MaxWrites
  /\ Len(held.ids) < MaxLen
  /\ CommitAll("caller", indexedItems, Allocate(<<r>>), calls,
               Settled(Sync("push"), Ok(<<>>)),
               [Stale(held) EXCEPT !.ids = @ \o NewIds(1), !.writes = @ + 1])

\* seq.pop()
PopHeld ==
  /\ held.from # "none"
  /\ held.writes < MaxWrites
  /\ Len(held.ids) > 0
  /\ CommitAll("caller", indexedItems, recs, calls, Settled(Sync("pop"), Ok(<<>>)),
               [Stale(held) EXCEPT !.ids = SubSeq(@, 1, Len(@) - 1), !.writes = @ + 1])

\* seq[i].embedding[0] = v: a write into the embedding array of a record
SetEmbedding(i, v) ==
  /\ held.from # "none"
  /\ held.writes < MaxWrites
  /\ i \in 1..Len(held.ids)
  /\ CommitAll("caller", indexedItems,
               [recs EXCEPT ![held.ids[i]].embedding[1] = v], calls,
               Settled(Sync("setEmbedding"), Ok(<<>>)),
               [Stale(held) EXCEPT !.writes = @ + 1])

\* seq[i].metadata = m
SetMetadata(i, m) ==
  /\ held.from # "none"
  /\ held.writes < MaxWrites
  /\ i \in 1..Len(held.ids)
  /\ CommitAll("caller", indexedItems,
               [recs EXCEPT ![held.ids[i]].metadata = m], calls,
               Settled(Sync("setMetadata"), Ok(<<>>)),
               [Stale(held) EXCEPT !.writes = @ + 1])

\* the caller takes the outcome of the call that settled
Return ==
  /\ ret # NoRet
  /\ ret' = NoRet
  /\ UNCHANGED <<ctor, config, indexedItems, recs, calls, held, pure, engine>>

\* the program is ready for its next step: no outcome waits to be taken
Ready == ret = NoRet

\* a caller that awaits every call before it makes the next one
Next ==
  \/ \E c \in CallIds, items \in ItemsInputs, replace \in BOOLEAN :
        Ready /\ NoCall /\ StartIndex(c, items, replace)
  \/ \E c \in CallIds, o \in EngineFailures \cup
          {Ok([i \in 1..Len(s) |-> EmbeddingResult(s[i].text)]) : s \in SeqsUpTo(Docs, MaxBatch)} :
        Ready /\ ResumeIndex(c, o)
  \/ \E c \in CallIds, q \in Texts, ov \in Overrides :
        Ready /\ NoCall /\ StartSearch(c, q, ov)
  \/ \E c \in CallIds, item \in Docs, ov \in DelegatedOverrides :
        Ready /\ NoCall /\ StartFindSimilar(c, item, ov)
  \/ \E c \in CallIds, o \in UNION {EmbedOutcomes(t) : t \in Texts} :
        Ready /\ ResumeSearch(c, o)
  \/ \E c \in CallIds, q \in Texts, f \in Filters, ov \in DelegatedOverrides :
        Ready /\ NoCall /\ StartSearchWithFilter(c, q, f, ov)
  \/ \E c \in CallIds : Ready /\ FinishSearchWithFilter(c)
  \/ Ready /\ NoCall /\ Clear
  \/ \E s \in CallerSeqs : Ready /\ NoCall /\ ImportIndex(s)
  \/ Ready /\ NoCall /\ GetStats
  \/ Return

Spec == Init /\ [][Next]_vars

\* ---- callers that do not await: calls overlap, on a small set of inputs
\* (findSimilar is search under another name and is left to Spec)
OverlapItems == {Arr(<<Doc("a", "x")>>), Arr(<<Doc("b", "y")>>)}
OverlapFilters == {Pred("category", "x"), Pred("category", "z")}
OverlapSeqs == {<<>>, <<Rec(Doc("c", "x"), <<-1, 0>>, Undefined)>>}
OverlapFailure == Err("EMBEDDING_FAILED", "Failed to generate embedding: Unknown error")

InitOverlap ==
  /\ Init
  /\ ctor = Partial(FALSE, 0, FALSE, Num(0, 1), TRUE, "byCategory")

NextOverlap ==
  \/ \E c \in CallIds, items \in OverlapItems, replace \in BOOLEAN :
        Ready /\ StartIndex(c, items, replace)
  \/ \E c \in CallIds, t \in Texts :
        Ready /\ ResumeIndex(c, Ok(<<EmbeddingResult(t)>>))
  \/ \E c \in CallIds : Ready /\ ResumeIndex(c, OverlapFailure)
  \/ \E c \in CallIds : Ready /\ StartSearch(c, "a", NoConfig)
  \/ \E c \in CallIds, t \in Texts : Ready /\ ResumeSearch(c, Ok(EmbeddingResult(t)))
  \/ \E c \in CallIds : Ready /\ ResumeSearch(c, OverlapFailure)
  \/ \E c \in CallIds, f \in OverlapFilters :
        Ready /\ StartSearchWithFilter(c, "a", f, NoConfig)
  \/ \E c \in CallIds : Ready /\ FinishSearchWithFilter(c)
  \/ Ready /\ Clear
  \/ \E s \in OverlapSeqs : Ready /\ ImportIndex(s)
  \/ Return

SpecOverlap == InitOverlap /\ [][NextOverlap]_vars

\* ---- a caller that keeps the arrays it exports and imports, and writes
\* to them; it awaits every call
CallerItems == {Arr(<<Doc("a", "x")>>), Arr(<<Doc("b", "y")>>)}
WrittenSeqs == {<<Rec(Doc("c", "x"), <<-1, 0>>, Undefined)>>}
WrittenMeta == Meta({<<"category", "z">>})

InitCaller ==
  /\ Init
  /\ ctor = Partial(FALSE, 0, FALSE, Num(0, 1), TRUE, "byCategory")

NextCaller ==
  \/ \E c \in CallIds, items \in CallerItems :
        Ready /\ NoCall /\ StartIndex(c, items, FALSE)
  \/ \E c \in CallIds, t \in Texts :
        Ready /\ ResumeIndex(c, Ok(<<EmbeddingResult(t)>>))
  \/ Ready /\ NoCall /\ Clear
  \/ Ready /\ NoCall /\ ExportIndex
  \/ \E s \in WrittenSeqs : Ready /\ NoCall /\ WriteSeq(s)
  \/ Ready /\ NoCall /\ ImportHeld
  \/ \E s \in WrittenSeqs : Ready /\ NoCall /\ PushHeld(s[1])
  \/ Ready /\ NoCall /\ PopHeld
  \/ \E i \in 1..MaxLen : Ready /\ NoCall /\ SetEmbedding(i, 0)
  \/ Ready /\ NoCall /\ SetMetadata(1, WrittenMeta)
  \/ Return

SpecCaller == InitCaller /\ [][NextCaller]_vars

\* ---- the functions that have no state, applied to inputs of their own:
\* a behaviour applies one function to one input
\* (itemCount, dimensions) of indexes up to about 8 MB of embeddings
StatsInputs ==
  {<<n, d>> : n \in 0..MaxLen, d \in 0..2} \cup
  {<<16, 1>>, <<100, 384>>, <<131071, 1>>, <<256, 512>>, <<131073, 1>>,
   <<1000, 384>>, <<2048, 512>>, <<10000, 100>>}
\* query and candidate embeddings: empty, of the same and of another
\* dimension, and the values of k
PureQueries == {<<>>, <<1, 0>>, <<3, 4>>, <<0, 0>>}
PureCandidates == {<<1, 0>>, <<3, 4>>, <<-1, 0>>, <<1>>, <<0, 0>>}
PureKs == {-1, 0, 1, 2, 10}
\* the arguments of the other vector functions: embeddings whose magnitude
\* is an integer
PureVectors == PureQueries \cup PureCandidates

\* getStats' computation of memoryEstimate on an index of itemCount
\* entries whose first embedding has dimensions components
ApplyMemoryEstimate(itemCount, dimensions) ==
  /\ pure = NoPure
  /\ pure' = [fn |-> "memoryEstimate", args |-> <<itemCount, dimensions>>,
              out |-> MemoryEstimate(itemCount, dimensions)]
  /\ UNCHANGED <<ctor, config, indexedItems, recs, calls, ret, held, engine>>

ApplyTopKSimilar(query, candidates, k) ==
  /\ pure = NoPure
  /\ pure' = [fn |-> "topKSimilar", args |-> <<query, candidates, k>>,
              out |-> topKSimilar(query, candidates, k)]
  /\ UNCHANGED <<ctor, config, indexedItems, recs, calls, ret, held, engine>>

\* one call of fn on args: the function reads its arguments and writes only
\* to its locals (sum, result and the arrays map returns), so the caller's
\* arrays are after the call (after) what they were before it (args)
ApplyPure(fn, args, out) ==
  /\ pure = NoPure
  /\ pure' = [fn |-> fn, args |-> args, out |-> out, after |-> args]
  /\ UNCHANGED <<ctor, config, indexedItems, recs, calls, ret, held, engine>>

InitPure ==
  /\ Init
  /\ ctor = NoConfig

NextPure ==
  \/ \E in \in StatsInputs : ApplyMemoryEstimate(in[1], in[2])
  \/ \E q \in PureQueries, cs \in SeqsUpTo(PureCandidates, MaxLen), k \in PureKs :
        ApplyTopKSimilar(q, cs, k)
  \* dotProduct takes no root: two more embeddings for it
  \/ \E a, b \in PureVectors \cup {<<1, 2, 3>>, <<4, 5, 6>>} :
        ApplyPure("dotProduct", <<a, b>>, dotProduct(a, b))
  \/ \E a, b \in PureVectors :
        ApplyPure("cosineSimilarity", <<a, b>>, cosineSimilarity(a, b))
  \* the sum of squared differences is a square, so that Math.sqrt of it
  \* is the integer Sqrt
  \/ \E a, b \in PureVectors :
        /\ Len(a) = Len(b) =>
              Sqrt(SumSqDiff(a, b, 1)) * Sqrt(SumSqDiff(a, b, 1)) = SumSqDiff(a, b, 1)
        /\ ApplyPure("euclideanDistance", <<a, b>>, euclideanDistance(a, b))
  \/ \E v \in PureVectors : ApplyPure("normalize", <<v>>, normalize(v))
  \/ \E es \in SeqsUpTo(PureVectors, MaxLen) :
        ApplyPure("centroid", <<es>>, centroid(es))
  \* search() after its await, on stored items some of which score the same
  \/ \E q \in {<<1, 0>>, <<3, 4>>},
          items \in SeqsUpTo({Rec(Doc("a", "x"), <<1, 0>>, Undefined),
                              Rec(Doc("b", "y"), <<1, 0>>, Undefined),
                              Rec(Doc("c", "x"), <<3, 4>>, Undefined)}, MaxLen),
          k \in {1, DefaultTopK}, t \in {Num(DefaultThresholdNum, 1), NegInf} :
        ApplyPure("search", <<q, items, k, t>>,
                  SearchBody(q, items, [topK |-> k, threshold |-> t]))

SpecPure == InitPure /\ [][NextPure]_vars

\* ------------------------------------------------ engine/SemanticEngine.ts
\* a step of the engine leaves the index, its caller and the pure functions
\* alone
EngineStep(eng) ==
  /\ engine' = eng
  /\ UNCHANGED <<ctor, config, indexedItems, recs, calls, ret, held, pure>>

\* the slot a new engine call takes: the first that is idle
EngineFreeSlot(c) ==
  /\ engine.calls[c].op = "idle"
  /\ \A d \in EngineCallIds : d < c => engine.calls[d].op # "idle"

\* isReady(): this.model !== null
isReady == engine.model

\* an initialize() that does not look at the promise in flight
JoinsLoadNever(promise) == FALSE

\* if (this.initializationPromise): a load is in flight, return its promise
JoinsLoad(promise) == promise # 0

\* a finally that clears the promise only after a load that succeeded
FinallyPromiseOnSuccess(state) == IF state = "rejected" THEN engine.initializationPromise ELSE 0

\* finally { this.initializationPromise = null }, after a load that ended
\* in state
FinallyPromise(state) == 0

\* initialize() up to its return or its await
Initialize(c) ==
  /\ EngineFreeSlot(c)
  /\ LET call == [EngineIdle EXCEPT !.op = "initialize"]
         n == Len(engine.loads) + 1
     IN IF JoinsLoad(engine.initializationPromise)
        THEN EngineStep([engine EXCEPT
               !.calls[c] = [call EXCEPT !.pc = "returned",
                                         !.load = engine.initializationPromise],
               !.last = NoLast])
        ELSE IF engine.model
        THEN EngineStep([engine EXCEPT !.last = [call |-> call, result |-> Ok(<<>>)]])
        ELSE /\ Len(engine.loads) < MaxLoads
             /\ EngineStep([engine EXCEPT
                   !.loads = Append(@, [state |-> "pending", resumed |-> FALSE,
                                        stale |-> FALSE]),
                   !.initializationPromise = n,
                   !.calls[c] = [call EXCEPT !.pc = "awaiting", !.load = n,
                                             !.started = TRUE],
                   !.last = NoLast])

\* _performInitialization after await pipeline(...): the loader of load n
\* returned the model (ok), which is assigned to this.model, or failed
PerformInitialization(n, ok) ==
  /\ n \in 1..Len(engine.loads)
  /\ engine.loads[n].state = "pending"
  /\ EngineStep([engine EXCEPT
        !.loads[n].state = IF ok THEN "resolved" ELSE "rejected",
        !.model = IF ok THEN TRUE ELSE @,
        !.last = NoLast])

\* the outcome of a call that awaited or returned the promise of load n
LoadOutcome(n) ==
  IF engine.loads[n].state = "resolved" THEN Ok(<<>>)
  ELSE ErrWith("MODEL_NOT_LOADED", "Failed to initialize model: Unknown error",
               [modelName |-> "Xenova/all-MiniLM-L6-v2", error |-> "thrown"])

\* initialize() after await this.initializationPromise: the finally clause,
\* then the call's own promise settles as the awaited one did
ResumeInitialize(c) ==
  /\ engine.calls[c].pc = "awaiting"
  /\ engine.loads[engine.calls[c].load].state # "pending"
  /\ EngineStep([engine EXCEPT
        !.initializationPromise = FinallyPromise(engine.loads[engine.calls[c].load].state),
        !.loads[engine.calls[c].load].resumed = TRUE,
        !.calls[c] = EngineIdle,
        !.last = [call |-> engine.calls[c], result |-> LoadOutcome(engine.calls[c].load)]])

\* the promise of an initialize() call that returned the promise in flight
\* settles as that one did; its reaction was registered after the one of
\* the call that awaits the promise, so it runs after that call resumed
SettleReturned(c) ==
  /\ engine.calls[c].pc = "returned"
  /\ engine.loads[engine.calls[c].load].state # "pending"
  /\ engine.loads[engine.calls[c].load].resumed
  /\ EngineStep([engine EXCEPT
        !.calls[c] = EngineIdle,
        !.last = [call |-> engine.calls[c], result |-> LoadOutcome(engine.calls[c].load)]])

\* dispose(): this.model = null; this.initializationPromise = null
Dispose ==
  EngineStep([engine EXCEPT
    !.model = FALSE, !.initializationPromise = 0, !.disposed = TRUE,
    !.loads = [n \in 1..Len(@) |-> [@[n] EXCEPT !.stale = TRUE]],
    !.last = [call |-> [EngineIdle EXCEPT !.op = "dispose"], result |-> Ok(<<>>)]])

\* assertInitialized(): throws when this.model is null
assertInitialized ==
  IF ~engine.model
  THEN Err("MODEL_NOT_LOADED", "Model not initialized. Call initialize() first.")
  ELSE Ok(<<>>)

\* a check that takes every text
InvalidTextNever(text) == FALSE

\* !text || typeof text !== 'string'
InvalidText(text) == text.type # "string" \/ text.value = ""

\* the statements of embed(text) before the model is invoked
EmbedEntry(text) ==
  IF ~assertInitialized.ok THEN assertInitialized
  ELSE IF InvalidText(text)
  THEN ErrWith("INVALID_INPUT", "Text must be a non-empty string", [text |-> text])
  ELSE Ok(<<>>)

\* what embed(text) settles with once the model call returned its output
\* (ok) or raised a value that is no Error
EmbedExit(text, ok) ==
  IF ok THEN Ok(EmbeddingResult(text.value))
  ELSE ErrWith("EMBEDDING_FAILED", "Failed to generate embedding: Unknown error",
               [text |-> text.value, error |-> "thrown"])

\* embed(text) up to await this.model(text, ...)
Embed(c, text) ==
  /\ EngineFreeSlot(c)
  /\ LET call == [EngineIdle EXCEPT !.op = "embed", !.text = text]
     IN IF ~EmbedEntry(text).ok
        THEN EngineStep([engine EXCEPT !.last = [call |-> call, result |-> EmbedEntry(text)]])
        ELSE EngineStep([engine EXCEPT
               !.calls[c] = [call EXCEPT !.pc = "model", !.invoked = 1],
               !.last = NoLast])

\* embed(text) after its await: the model call returned its output (ok) or
\* raised, which the settled call keeps in pc
ResumeEmbed(c, ok) ==
  /\ engine.calls[c].op = "embed"
  /\ engine.calls[c].pc = "model"
  /\ EngineStep([engine EXCEPT
        !.calls[c] = EngineIdle,
        !.last = [call |-> [engine.calls[c] EXCEPT !.pc = IF ok THEN "output" ELSE "raised"],
                  result |-> EmbedExit(engine.calls[c].text, ok)]])

\* ---- embedBatch(texts, { batchSize })
\* an embed promise that has not settled
Pending == Err("none", "pending")

\* i < batches, with batches = Math.ceil(length / batchSize) of a length
\* above 0: Infinity when batchSize is 0, at most 0 when it is negative
InLoop(i, length, batchSize) ==
  IF batchSize = 0 THEN TRUE
  ELSE IF batchSize < 0 THEN FALSE
  ELSE i < (length + batchSize - 1) \div batchSize

\* a callback that is given the start of the chunk
OnProgressStart(call) ==
  IF call.onProgress
  THEN Append(call.progress,
              [completed |-> call.i * call.batchSize, total |-> Len(call.texts),
               invoked |-> call.invoked, order |-> call.order])
  ELSE call.progress

\* if (onProgress) onProgress(end, texts.length), at the end of iteration i
OnProgress(call) ==
  IF call.onProgress
  THEN Append(call.progress,
              [completed |-> Min(call.i * call.batchSize + call.batchSize, Len(call.texts)),
               total |-> Len(call.texts),
               invoked |-> call.invoked, order |-> call.order])
  ELSE call.progress

\* results.push(...batchResults) written as an unshift
PushResultsFront(results, batchResults) == batchResults \o results

\* results.push(...batchResults)
PushResults(results, batchResults) == results \o batchResults

\* the first promise of the chunk that is rejected, in the order in which
\* Promise.all took them, or none
FirstRejection(chunk) ==
  IF \E j \in 1..Len(chunk) : chunk[j] # Pending /\ ~chunk[j].ok
  THEN chunk[CHOOSE j \in 1..Len(chunk) :
               /\ chunk[j] # Pending /\ ~chunk[j].ok
               /\ \A k \in 1..(j - 1) : chunk[k] = Pending \/ chunk[k].ok]
  ELSE NoRejection

\* iteration i of the loop up to await Promise.all(...): batch =
\* texts.slice(start, end), and embed(text) is called for each text of it,
\* which throws or invokes the model
StartChunk(call) ==
  LET start == call.i * call.batchSize
      end == Min(start + call.batchSize, Len(call.texts))
      batch == SubSeq(call.texts, start + 1, end)
      chunk == [j \in 1..Len(batch) |->
                  IF EmbedEntry(batch[j]).ok THEN Pending ELSE EmbedEntry(batch[j])]
  IN [call EXCEPT !.pc = "all", !.chunk = chunk,
                  !.rejection = FirstRejection(chunk),
                  !.invoked = @ + Cardinality({j \in 1..Len(chunk) : chunk[j] = Pending})]

\* embedBatch up to its first await, or to its return when the loop has no
\* iteration
EmbedBatch(c, texts, batchSize, onProgress) ==
  /\ EngineFreeSlot(c)
  /\ LET call == [EngineIdle EXCEPT !.op = "embedBatch", !.texts = texts.elems,
                                    !.batchSize = batchSize,
                                    !.onProgress = onProgress]
     IN IF ~assertInitialized.ok
        THEN EngineStep([engine EXCEPT !.last = [call |-> call, result |-> assertInitialized]])
        ELSE IF ~texts.isArray \/ Len(texts.elems) = 0
        THEN EngineStep([engine EXCEPT !.last =
               [call |-> call,
                result |-> Err("INVALID_INPUT", "Texts must be a non-empty array")]])
        ELSE IF InLoop(0, Len(texts.elems), batchSize)
        THEN EngineStep([engine EXCEPT !.calls[c] = StartChunk(call), !.last = NoLast])
        ELSE EngineStep([engine EXCEPT !.last = [call |-> call, result |-> Ok(call.results)]])

\* the model call of the j-th embed of the chunk returned or raised
SettleEmbedOfBatch(c, j, ok) ==
  /\ engine.calls[c].op = "embedBatch"
  /\ j \in 1..Len(engine.calls[c].chunk)
  /\ engine.calls[c].chunk[j] = Pending
  /\ LET call == engine.calls[c]
         text == call.texts[call.i * call.batchSize + j]
     IN EngineStep([engine EXCEPT
          !.calls[c].chunk[j] = EmbedExit(text, ok),
          !.calls[c].order = Append(@, call.i * call.batchSize + j),
          !.calls[c].rejection =
             IF call.rejection = NoRejection /\ ~ok THEN EmbedExit(text, ok) ELSE @,
          !.last = NoLast])

\* embedBatch after await Promise.all(...): the rejection of the chunk is
\* thrown, or the chunk's results are pushed, onProgress is called and the
\* loop goes on (for MaxIterations iterations at most) or ends
ResumeEmbedBatch(c) ==
  /\ engine.calls[c].op = "embedBatch"
  /\ engine.calls[c].pc = "all"
  /\ LET call == engine.calls[c]
         batchResults == [j \in 1..Len(call.chunk) |-> call.chunk[j].val]
         next == [call EXCEPT !.results = PushResults(@, batchResults),
                              !.progress = OnProgress(call), !.i = @ + 1]
     IN IF call.rejection # NoRejection
        THEN EngineStep([engine EXCEPT
               !.calls[c] = EngineIdle,
               !.last = [call |-> call, result |-> call.rejection]])
        ELSE /\ \A j \in 1..Len(call.chunk) : call.chunk[j].ok
             /\ IF InLoop(next.i, Len(call.texts), call.batchSize)
                THEN /\ next.i < MaxIterations
                     /\ EngineStep([engine EXCEPT !.calls[c] = StartChunk(next), !.last = NoLast])
                ELSE EngineStep([engine EXCEPT
                       !.calls[c] = EngineIdle,
                       !.last = [call |-> next, result |-> Ok(next.results)]])

\* ---- the engine under callers that do not await

InitEngine ==
  /\ Init
  /\ ctor = NoConfig

NextEngine ==
  \/ \E c \in EngineCallIds : Initialize(c)
  \/ \E n \in 1..MaxLoads, ok \in BOOLEAN : PerformInitialization(n, ok)
  \/ \E c \in EngineCallIds : ResumeInitialize(c)
  \/ \E c \in EngineCallIds : SettleReturned(c)
  \/ Dispose
  \/ \E c \in EngineCallIds, text \in {Str("a"), Str(""), NotAString} : Embed(c, text)
  \/ \E c \in EngineCallIds, ok \in BOOLEAN : ResumeEmbed(c, ok)

SpecEngine == InitEngine /\ [][NextEngine]_vars

\* ---- initialize() and dispose() alone, under an event loop that runs
\* every continuation that is ready and a loader that ends every load it
\* was asked for, with the model or with a failure
NextInitialize ==
  \/ \E c \in EngineCallIds : Initialize(c)
  \/ \E n \in 1..MaxLoads, ok \in BOOLEAN : PerformInitialization(n, ok)
  \/ \E c \in EngineCallIds : ResumeInitialize(c)
  \/ \E c \in EngineCallIds : SettleReturned(c)
  \/ Dispose

SpecEngineFair ==
  /\ InitEngine
  /\ [][NextInitialize]_vars
  /\ \A c \in EngineCallIds :
       WF_vars(ResumeInitialize(c)) /\ WF_vars(SettleReturned(c))
  /\ \A n \in 1..MaxLoads : WF_vars(\E ok \in BOOLEAN : PerformInitialization(n, ok))

\* ---- embedBatch under a caller that awaits initialize() before it calls
\* embedBatch, awaits embedBatch before it calls either again, and may call
\* dispose() at any time
\* the texts arguments: no array, arrays of up to MaxLen strings, and two
\* arrays that hold a text embed rejects; batchSize is negative, 0 or
\* positive, and onProgress is given or not
BatchInputs ==
  {NotArray} \cup {Arr(s) : s \in SeqsUpTo({Str("a"), Str("b")}, MaxLen)}
    \cup {Arr(<<Str("")>>), Arr(<<Str("a"), NotAString>>)}
\* no call with this op is in flight
NoEngineCall(op) == \A c \in EngineCallIds : engine.calls[c].op # op

NextBatch ==
  \/ \E c \in EngineCallIds :
        NoEngineCall("initialize") /\ NoEngineCall("embedBatch") /\ Initialize(c)
  \/ \E n \in 1..MaxLoads, ok \in BOOLEAN : PerformInitialization(n, ok)
  \/ \E c \in EngineCallIds : ResumeInitialize(c)
  \/ Dispose
  \/ \E c \in EngineCallIds, texts \in BatchInputs, batchSize \in (-1)..MaxBatch,
          onProgress \in BOOLEAN :
        /\ NoEngineCall("initialize") /\ NoEngineCall("embedBatch")
        /\ EmbedBatch(c, texts, batchSize, onProgress)
  \/ \E c \in EngineCallIds, j \in 1..MaxBatch, ok \in BOOLEAN :
        SettleEmbedOfBatch(c, j, ok)
  \/ \E c \in EngineCallIds : ResumeEmbedBatch(c)

SpecBatch == InitEngine /\ [][NextBatch]_vars

\* ================================================================ claims
SearchOps == {"search", "findSimilar", "searchWithFilter"}
\* item.metadata ?? {} of a record, as the predicate of a filtered search sees it
MetaOf(r) == IF r.metadata.has THEN r.metadata.map ELSE {}

\* C1: once a searchWithFilter call has returned or raised, with no other
\* operation on the index during the call, the stored sequence is the same
\* entries, in the same order and with the same contents, as before the call
C1_FilterRestoresIndex ==
  (ret.call.op = "searchWithFilter" /\ ret.call.alone) =>
    /\ indexedItems = ret.call.pre
    /\ StoredItems = ret.call.preItems
\* a filtered search that raised because the query embedding failed, on an
\* index of which the predicate had kept only a part
C1_Witness ==
  /\ ret.call.op = "searchWithFilter"
  /\ ret.call.alone
  /\ ret.result.code = "EMBEDDING_FAILED"
  /\ Len(indexedItems) >= 2
  /\ \E i \in 1..Len(indexedItems) : ~filter(ret.call.filter, MetaOf(StoredItems[i]))

\* C2: the results of a search carry the ranks 1, 2, ..., n in the order
\* returned, and their scores do not increase along that order
C2_RanksContiguousDescending ==
  (ret.call.op \in SearchOps /\ ret.result.ok) =>
    \A i \in 1..Len(ret.result.val) :
      /\ ret.result.val[i].rank = i
      /\ i < Len(ret.result.val) =>
           Geq(ret.result.val[i].score, ret.result.val[i + 1].score)
\* a search that returned two results of different scores after the
\* threshold had dropped a third one
C2_Witness ==
  /\ ret.call.op = "search"
  /\ ret.result.ok
  /\ Len(ret.result.val) = 2
  /\ Lt(ret.result.val[2].score, ret.result.val[1].score)
  /\ Len(indexedItems) = 3
  /\ ret.call.config.topK >= 3

\* C3: every result of search, searchWithFilter and findSimilar has a score
\* that is at least the effective threshold of the call
C3_ScoresReachThreshold ==
  (ret.call.op \in SearchOps /\ ret.result.ok) =>
    \A i \in 1..Len(ret.result.val) :
      Geq(ret.result.val[i].score, ret.call.config.threshold)
\* a search under the threshold 4/5 that returned one item and dropped another
C3_Witness ==
  /\ ret.call.op = "search"
  /\ ret.result.ok
  /\ ret.call.config.threshold = Num(4, 5)
  /\ Len(ret.result.val) = 1
  /\ Len(indexedItems) >= 2
  /\ ret.call.config.topK >= 2

\* the values the constructor fixed: the argument's, or the defaults 10 and 0
ConstructedTopK == IF ctor.hasTopK THEN ctor.topK ELSE 10
ConstructedThreshold == IF ctor.hasThreshold THEN ctor.threshold ELSE Num(0, 1)

\* C4: a search uses the override's topK and threshold where the override
\* has the field and the constructor's value (default 10 and 0) otherwise,
\* returns at most that many results, and leaves the stored config as the
\* constructor set it, so that an override holds for its own call only
C4_OverrideWinsPerField ==
  /\ config.topK = ConstructedTopK
  /\ config.threshold = ConstructedThreshold
  /\ (ret.call.op \in SearchOps /\ ret.result.msg # IndexEmptyMessage) =>
       LET ov == ret.call.override
           topK == IF ov.hasTopK THEN ov.topK ELSE ConstructedTopK
           threshold == IF ov.hasThreshold THEN ov.threshold ELSE ConstructedThreshold
       IN /\ ret.call.config.topK = topK
          /\ ret.call.config.threshold = threshold
          /\ ret.result.ok =>
               /\ Len(ret.result.val) <= topK
               /\ \A i \in 1..Len(ret.result.val) : Geq(ret.result.val[i].score, threshold)
\* a search with the override topK = 1 on an index built with the default
\* topK that returned a single result out of two stored items
C4_Witness ==
  /\ ret.call.op = "search"
  /\ ret.result.ok
  /\ ret.call.override.hasTopK
  /\ ret.call.override.topK = 1
  /\ ~ret.call.override.hasThreshold
  /\ ~ctor.hasTopK
  /\ Len(ret.result.val) = 1
  /\ Len(indexedItems) >= 2

\* C5: after a successful index(items, replace=true) the index holds exactly
\* the entries built from items, in input order, and none of the entries
\* stored before the call
C5_ReplaceDiscardsPrior ==
  (ret.call.op = "index" /\ ret.result.ok /\ ret.call.replace) =>
    /\ Len(indexedItems) = Len(ret.call.items.elems)
    /\ \A i \in 1..Len(indexedItems) : StoredItems[i].item = ret.call.items.elems[i]
    /\ Range(indexedItems) \cap Range(ret.call.pre) = {}
\* a replacing index() of two different items on an index that held entries
C5_Witness ==
  /\ ret.call.op = "index"
  /\ ret.result.ok
  /\ ret.call.replace
  /\ Len(ret.call.pre) >= 2
  /\ Len(ret.call.items.elems) = 2
  /\ ret.call.items.elems[1] # ret.call.items.elems[2]

\* C6: a successful index(items) without replace leaves the entries stored
\* before in place and appends one entry per item, in order: the item, the
\* embedding of the item's text and the metadata extracted from the item
C6_AppendInOrder ==
  (ret.call.op = "index" /\ ret.result.ok /\ ~ret.call.replace) =>
    LET n == Len(ret.call.pre)
        items == ret.call.items.elems
    IN /\ Len(indexedItems) = n + Len(items)
       /\ SubSeq(indexedItems, 1, n) = ret.call.pre
       /\ SubSeq(StoredItems, 1, n) = ret.call.preItems
       /\ Cardinality(Range(indexedItems)) = Len(indexedItems)
       /\ \A i \in 1..Len(items) :
            StoredItems[n + i] =
              Rec(items[i], ModelOutput(items[i].text),
                  IF ctor.hasMeta /\ ctor.metadataExtractor = "byCategory"
                  THEN Meta({<<"category", items[i].category>>}) ELSE Meta({}))
\* an appending index() of two different items on an index that held an entry
C6_Witness ==
  /\ ret.call.op = "index"
  /\ ret.result.ok
  /\ ~ret.call.replace
  /\ Len(ret.call.pre) >= 1
  /\ Len(ret.call.items.elems) = 2
  /\ ret.call.items.elems[1].text # ret.call.items.elems[2].text
  /\ ctor.hasMeta

\* C7: when the batch embedding request of index() fails, index() fails and
\* every entry stored afterwards was stored before the call
C7_NoPartialApplication ==
  (ret.call.op = "index" /\ ~ret.call.pending.ok) =>
    /\ ~ret.result.ok
    /\ \A i \in 1..Len(indexedItems) : indexedItems[i] \in Range(ret.call.pre)
\* an appending index() of two items whose batch request failed, on an index
\* that held an entry
C7_Witness ==
  /\ ret.call.op = "index"
  /\ ~ret.call.pending.ok
  /\ ~ret.call.replace
  /\ Len(ret.call.items.elems) = 2
  /\ Len(indexedItems) >= 1

\* C8: index() fails with InvalidInput when items is an empty array or is
\* not an array, whatever replace is; no such call gets to its batch request
C8_InvalidItemsRejected ==
  /\ (ret.call.op = "index" /\ (~ret.call.items.isArray \/ Len(ret.call.items.elems) = 0)) =>
       /\ ~ret.result.ok
       /\ ret.result.code = "INVALID_INPUT"
  /\ \A c \in CallIds :
       calls[c].op = "index" => calls[c].items.isArray /\ Len(calls[c].items.elems) > 0
\* index([], true) on an index that holds entries has raised
C8_Witness ==
  /\ ret.call.op = "index"
  /\ ret.call.items.isArray
  /\ Len(ret.call.items.elems) = 0
  /\ ret.call.replace
  /\ ~ret.result.ok
  /\ Len(indexedItems) >= 1

\* C9: search (and findSimilar, which delegates to it) on an index without
\* items fails with InvalidInput, under the message that begins with the
\* words 'Index is empty', and gets no further
C9_EmptyIndexRejected ==
  /\ (ret.call.op \in {"search", "findSimilar"} /\ Len(ret.call.pre) = 0) =>
       /\ ~ret.result.ok
       /\ ret.result.code = "INVALID_INPUT"
       /\ ret.result.msg = IndexEmptyMessage
  /\ \A c \in CallIds :
       calls[c].op \in {"search", "findSimilar"} => Len(calls[c].pre) > 0
\* a search on an empty index has raised
C9_Witness ==
  /\ ret.call.op = "search"
  /\ Len(ret.call.pre) = 0
  /\ ~ret.result.ok

\* the stored entries whose metadata (empty when absent) satisfies predicate f
Matching(f) == {i \in 1..Len(indexedItems) : filter(f, MetaOf(StoredItems[i]))}

\* C10: every result of searchWithFilter is the item of a stored entry whose
\* metadata satisfies the predicate, and there are no more results than
\* such entries
C10_FilterLimitsResults ==
  (ret.call.op = "searchWithFilter" /\ ret.result.ok) =>
    /\ \A i \in 1..Len(ret.result.val) :
         \E j \in Matching(ret.call.filter) : StoredItems[j].item = ret.result.val[i].item
    /\ Len(ret.result.val) <= Cardinality(Matching(ret.call.filter))
\* a filtered search by category that returned a result from an index that
\* also holds an entry of another category and an entry without metadata
C10_Witness ==
  /\ ret.call.op = "searchWithFilter"
  /\ ret.result.ok
  /\ ret.call.filter.kind = "category"
  /\ Len(ret.result.val) >= 1
  /\ Matching(ret.call.filter) # 1..Len(indexedItems)
  /\ \E i \in 1..Len(indexedItems) : ~StoredItems[i].metadata.has

C12_RoundTripRestores ==
  (ret.call.op = "importIndex" /\ held.stage = "restored") =>
    /\ Len(indexedItems) = Len(held.snapItems)
    /\ \A i \in 1..Len(indexedItems) :
         /\ StoredItems[i].item = held.snapItems[i].item
         /\ StoredItems[i].embedding = held.snapItems[i].embedding
         /\ StoredItems[i].metadata = held.snapItems[i].metadata
\* the import that ends the round trip of an index of two different entries
\* has run on the cleared index
C12_Witness ==
  /\ ret.call.op = "importIndex"
  /\ held.stage = "restored"
  /\ ret.call.pre = <<>>
  /\ Len(indexedItems) >= 2
  /\ StoredItems[1] # StoredItems[2]

\* C13: no write of the caller to the array exportIndex returned, or to a
\* record in it, changes what the index stores
C13_ExportIsDeepCopy ==
  (ret.call.op \in CallerWrites /\ held.from = "export") =>
    /\ indexedItems = ret.call.pre
    /\ StoredItems = ret.call.preItems

\* C14: no write of the caller to the array it gave to importIndex, or to a
\* record that was in it, changes what the index stores
C14_ImportSeversAliasing ==
  (ret.call.op \in CallerWrites /\ held.from = "import") =>
    /\ indexedItems = ret.call.pre
    /\ StoredItems = ret.call.preItems

\* C15 as claimed: every step that takes the stored sequence from non-empty
\* to empty is a clear() step
C15_OnlyClearEmpties ==
  [][(Len(indexedItems) > 0 /\ Len(indexedItems') = 0) => ret'.call.op = "clear"]_vars

\* C15, amended: every step that takes the stored sequence from non-empty to
\* empty is a clear() step, an importIndex of an empty sequence, the replace
\* step of an index(items, true) call, the filter step of a searchWithFilter
\* call whose predicate no entry satisfies, or the finally step of a
\* searchWithFilter call that had found the index empty
C15_EmptyingSteps ==
  [][(Len(indexedItems) > 0 /\ Len(indexedItems') = 0) =>
       \/ ret'.call.op = "clear"
       \/ ret'.call.op = "importIndex"
       \/ \E c \in CallIds :
            /\ calls[c].op = "idle"
            /\ calls'[c].op = "index"
            /\ calls'[c].replace
       \/ \E c \in CallIds :
            /\ calls[c].op = "idle"
            /\ calls'[c].op = "searchWithFilter"
            /\ \A i \in 1..Len(indexedItems) :
                 ~filter(calls'[c].filter, MetaOf(StoredItems[i]))
       \/ \E c \in CallIds :
            /\ calls[c].pc = "finally"
            /\ calls[c].originalIndex = <<>>
            /\ calls'[c].op = "idle"]_vars
\* a clear() has emptied an index that held entries
C15_Witness ==
  /\ ret.call.op = "clear"
  /\ Len(ret.call.pre) >= 2
  /\ Len(indexedItems) = 0

\* C16: clear() returns without error and leaves no entry, whatever the
\* index held; on an index that is already empty (as after a first clear)
\* it changes nothing, so that clear(); clear() ends where one clear() does
C16_ClearEmptiesIdempotent ==
  [][ret'.call.op = "clear" =>
       /\ ret'.result.ok
       /\ indexedItems' = <<>>
       /\ config' = config
       /\ indexedItems = <<>> => (recs' = recs /\ calls' = calls)]_vars
\* a clear() has returned on an index that held nothing
C16_Witness ==
  /\ ret.call.op = "clear"
  /\ ret.result.ok
  /\ ret.call.pre = <<>>
  /\ indexedItems = <<>>

\* C17: getStats reports as itemCount the number of stored entries and as
\* dimensions the length of the first stored entry's embedding, 0 when there
\* is no entry, and leaves the index and the config as they were
C17_StatsCountAndDimensions ==
  ret.call.op = "getStats" =>
    /\ ret.result.ok
    /\ ret.result.val[1].itemCount = Len(indexedItems)
    /\ Len(indexedItems) = 0 => ret.result.val[1].dimensions = 0
    /\ Len(indexedItems) > 0 =>
         ret.result.val[1].dimensions = Len(recs[indexedItems[1]].embedding)
    /\ indexedItems = ret.call.pre
    /\ StoredItems = ret.call.preItems
    /\ config = Constructor(ctor)
\* getStats on an imported index whose first entry has an embedding of one
\* component and whose second entry has one of two
C17_Witness ==
  /\ ret.call.op = "getStats"
  /\ Len(indexedItems) >= 2
  /\ Len(StoredItems[1].embedding) = 1
  /\ Len(StoredItems[2].embedding) = 2
  /\ ret.result.val[1].dimensions = 1

\* C18: memoryEstimate is totalBytes = itemCount * dimensions * 8 divided by
\* 1024 and followed by ' KB' when totalBytes is below 1,048,576, divided by
\* 1,048,576 and followed by ' MB' when it is above, in both cases the numeral
\* with two fraction digits nearest to the quotient; no entry gives '0.00 KB'
C18_MemoryEstimateUnits ==
  pure.fn = "memoryEstimate" =>
    LET totalBytes == pure.args[1] * pure.args[2] * 8
        Nearest(d) == {h \in (100 * totalBytes) \div d .. (100 * totalBytes) \div d + 1 :
                        /\ 2 * (100 * totalBytes - d * h) <= d
                        /\ 2 * (d * h - 100 * totalBytes) <= d}
    IN /\ totalBytes < 1048576 =>
            \E h \in Nearest(1024) : pure.out = Decimal2(h) \o " KB"
       /\ totalBytes > 1048576 =>
            \E h \in Nearest(1048576) : pure.out = Decimal2(h) \o " MB"
       /\ pure.args[1] = 0 => pure.out = "0.00 KB"
\* the estimate of 1000 entries of 384 components: 3,072,000 bytes, in MB
C18_Witness ==
  /\ pure.fn = "memoryEstimate"
  /\ pure.args = <<1000, 384>>
  /\ pure.out = "2.93 MB"

\* C19: for a non-empty query and k > 0, topKSimilar returns min(k, number
\* of candidates) pairs (position, score), the positions different and valid,
\* each score the one of the candidate at that position, the scores not
\* increasing, and no candidate left out scores above the last pair; no
\* candidate gives the empty result
C19_TopKSimilarSelectsBest ==
  (pure.fn = "topKSimilar" /\ Len(pure.args[1]) > 0 /\ pure.args[3] > 0) =>
    LET query == pure.args[1]
        candidates == pure.args[2]
        k == pure.args[3]
        out == pure.out.val
        n == Len(out)
        score(i) == LET sim == cosineSimilarity(query, candidates[i])
                    IN IF sim.ok THEN sim.val ELSE NegInf
    IN /\ pure.out.ok
       /\ n = IF k <= Len(candidates) THEN k ELSE Len(candidates)
       /\ \A i \in 1..n :
            /\ out[i][1] \in 0..(Len(candidates) - 1)
            /\ out[i][2] = score(out[i][1] + 1)
       /\ \A i, j \in 1..n : i # j => out[i][1] # out[j][1]
       /\ \A i \in 1..(n - 1) : Geq(out[i][2], out[i + 1][2])
       /\ \A c \in 1..Len(candidates) :
            (\A i \in 1..n : out[i][1] # c - 1) => Geq(out[n][2], score(c))
\* the best two of three candidates, one of which has another dimension
\* than the query and the best of which stands last
C19_Witness ==
  /\ pure.fn = "topKSimilar"
  /\ pure.args = <<(<<1, 0>>), <<(<<1>>), <<3, 4>>, <<1, 0>>>>, 2>>
  /\ Len(pure.out.val) = 2
  /\ pure.out.val[1][1] = 2
  /\ pure.out.val[2][1] = 1

\* C20: topKSimilar fails with InvalidInput whenever k <= 0 or the query is
\* empty, whatever the candidates are
C20_InvalidArgumentsRejected ==
  (pure.fn = "topKSimilar" /\ (pure.args[3] <= 0 \/ Len(pure.args[1]) = 0)) =>
    /\ ~pure.out.ok
    /\ pure.out.code = "INVALID_INPUT"

\* C21: in a topKSimilar call that reaches the scoring (non-empty query and
\* candidates, k > 0) the call returns, every returned candidate whose length
\* differs from the query's has score -Infinity, every returned candidate of
\* the query's length has a cosine similarity to the query and carries it,
\* and no candidate of another length stands before one of the query's length
C21_MismatchScoredLast ==
  (/\ pure.fn = "topKSimilar"
   /\ Len(pure.args[1]) > 0 /\ Len(pure.args[2]) > 0 /\ pure.args[3] > 0) =>
    LET query == pure.args[1]
        candidates == pure.args[2]
        out == pure.out.val
        cand(i) == candidates[out[i][1] + 1]
    IN /\ pure.out.ok
       /\ \A i \in 1..Len(out) :
            /\ Len(cand(i)) # Len(query) => out[i][2] = NegInf
            /\ Len(cand(i)) = Len(query) =>
                 /\ cosineSimilarity(query, cand(i)).ok
                 /\ out[i][2] = cosineSimilarity(query, cand(i)).val
       /\ \A i, j \in 1..Len(out) :
            (i < j /\ Len(cand(j)) = Len(query)) => Len(cand(i)) = Len(query)

\* C22: a call of dotProduct, cosineSimilarity or euclideanDistance on two
\* vectors of unequal length, and a call of centroid on a sequence holding a
\* vector whose length differs from the first one's, fails with
\* DIMENSION_MISMATCH, and the details of the error hold the two lengths
C22_MismatchCarriesLengths ==
  LET Failed == ~pure.out.ok /\ pure.out.code = "DIMENSION_MISMATCH"
      Carries(m, n) ==
        /\ "dimensions" \in DOMAIN pure.out.details
        /\ pure.out.details.dimensions = <<m, n>>
  IN /\ (/\ pure.fn \in {"dotProduct", "cosineSimilarity", "euclideanDistance"}
          /\ Len(pure.args[1]) # Len(pure.args[2])) =>
            (Failed /\ Carries(Len(pure.args[1]), Len(pure.args[2])))
     /\ (/\ pure.fn = "centroid"
          /\ \E n \in 1..Len(pure.args[1]) :
                Len(pure.args[1][n]) # Len(pure.args[1][1])) =>
            /\ Failed
            /\ \E n \in 1..Len(pure.args[1]) :
                  /\ Len(pure.args[1][n]) # Len(pure.args[1][1])
                  /\ Carries(Len(pure.args[1][1]), Len(pure.args[1][n]))

\* C23: cosineSimilarity on two non-empty vectors of equal length one of which
\* has only zero components fails with COMPUTATION_FAILED, and so does
\* normalize on a non-empty vector of zero components; whatever either
\* function returns is a quotient by a magnitude that is not zero, so no
\* value is NaN or infinite
C23_ZeroMagnitudeFails ==
  LET Zero(v) == \A i \in 1..Len(v) : v[i] = 0
      Failed == ~pure.out.ok /\ pure.out.code = "COMPUTATION_FAILED"
  IN /\ pure.fn = "cosineSimilarity" =>
          /\ (/\ Len(pure.args[1]) > 0 /\ Len(pure.args[1]) = Len(pure.args[2])
               /\ (Zero(pure.args[1]) \/ Zero(pure.args[2]))) => Failed
          /\ pure.out.ok => pure.out.val.den # 0
     /\ pure.fn = "normalize" =>
          /\ (Len(pure.args[1]) > 0 /\ Zero(pure.args[1])) => Failed
          /\ pure.out.ok => \A i \in 1..Len(pure.out.val) : pure.out.val[i].den # 0
\* the cosine of [3, 4] and the zero vector of its length has failed
C23_Witness ==
  /\ pure.fn = "cosineSimilarity"
  /\ pure.args = <<(<<3, 4>>), <<0, 0>>>>
  /\ pure.out.code = "COMPUTATION_FAILED"
  /\ pure.out.details.magnitudes = <<5, 0>>

\* C24: dotProduct on two non-empty vectors of equal length returns the sum
\* of the products a[i] * b[i] (32 for [1,2,3] and [4,5,6]) and leaves both
\* vectors as they were
C24_DotProductIsSumOfProducts ==
  (/\ pure.fn = "dotProduct"
   /\ Len(pure.args[1]) > 0 /\ Len(pure.args[1]) = Len(pure.args[2])) =>
    LET a == pure.args[1]
        b == pure.args[2]
        \* the sum, taken from the last product to the first
        SumTo[n \in 0..Len(a)] == IF n = 0 THEN 0 ELSE SumTo[n - 1] + a[n] * b[n]
    IN /\ pure.out.ok
       /\ pure.out.val = SumTo[Len(a)]
       /\ (a = <<1, 2, 3>> /\ b = <<4, 5, 6>>) => pure.out.val = 32
       /\ pure.after = <<a, b>>
\* the spec's example has been computed
C24_Witness ==
  /\ pure.fn = "dotProduct"
  /\ pure.args = <<(<<1, 2, 3>>), <<4, 5, 6>>>>
  /\ pure.out.val = 32
  /\ pure.after = pure.args

C26_SentinelStaysInside ==
  (ret.call.op \in SearchOps /\ ret.result.ok) =>
    \A i \in 1..Len(ret.result.val) : ret.result.val[i].score.den # 0

\* C27: as long as dispose() was not called and no load failed, the loader
\* has been invoked once as soon as initialize() was called at all, however
\* many calls there were and however they interleaved: every call in flight
\* awaits or returned the promise of that one load, a call that found the
\* model loaded returned without a load, every call that completes
\* completes without error and with the engine ready, and every call in
\* flight does complete (unless dispose() is called or a load fails)
C27_LoaderInvokedOnce ==
  /\ []((/\ ~engine.disposed
         /\ \A n \in 1..Len(engine.loads) : engine.loads[n].state # "rejected") =>
          /\ Len(engine.loads) <= 1
          /\ \A c \in EngineCallIds :
               engine.calls[c].op = "initialize" =>
                 /\ Len(engine.loads) = 1
                 /\ engine.calls[c].load = 1
          /\ Cardinality({c \in EngineCallIds : engine.calls[c].started}) <= 1
          /\ engine.last.call.op = "initialize" =>
               /\ Len(engine.loads) = 1
               /\ engine.last.result = Ok(<<>>)
               /\ isReady
               /\ engine.last.call.load = 0 => ~engine.last.call.started)
  /\ \A c \in EngineCallIds :
       (engine.calls[c].op = "initialize") ~>
         \/ engine.calls[c].op # "initialize"
         \/ engine.disposed
         \/ \E n \in 1..Len(engine.loads) : engine.loads[n].state = "rejected"
\* a call that arrived while the load was in flight has completed, with two
\* more calls behind it, one of which arrived the same way
C27_Witness ==
  /\ ~engine.disposed
  /\ Len(engine.loads) = 1
  /\ engine.last.call.op = "initialize"
  /\ engine.last.call.pc = "returned"
  /\ engine.last.result.ok
  /\ isReady
  /\ \E c \in EngineCallIds : engine.calls[c].pc = "returned"

\* C28: when a load fails, the engine's readiness is what it was before
\* (isReady() stays false); every initialize() call that awaited or returned
\* the promise of that load fails with MODEL_NOT_LOADED; once such a call
\* has failed the promise of the failed load is no longer the engine's
\* promise in flight, and no later initialize() call returns it: a call that
\* finds no model and no load in flight invokes the loader again
C28_FailedLoadNotCached ==
  /\ []((/\ engine.last.call.op = "initialize"
         /\ engine.last.call.load # 0
         /\ engine.loads[engine.last.call.load].state = "rejected") =>
          /\ ~engine.last.result.ok
          /\ engine.last.result.code = "MODEL_NOT_LOADED"
          /\ engine.initializationPromise # engine.last.call.load)
  /\ [][/\ \A n \in 1..Len(engine.loads) :
            (engine.loads[n].state = "pending" /\ engine'.loads[n].state = "rejected") =>
              engine'.model = engine.model
        /\ \A c \in EngineCallIds :
            (engine.calls[c].op = "idle" /\ engine'.calls[c].op = "initialize") =>
              /\ \/ engine'.calls[c].load > Len(engine.loads)
                 \/ ~engine.loads[engine'.calls[c].load].resumed
              /\ (~engine.model /\ engine.initializationPromise = 0) =>
                   /\ Len(engine'.loads) = Len(engine.loads) + 1
                   /\ engine'.calls[c].load = Len(engine'.loads)]_vars
\* after a first load that failed, an initialize() call started a second
\* load and has completed without error, the engine ready
C28_Witness ==
  /\ ~engine.disposed
  /\ Len(engine.loads) = 2
  /\ engine.loads[1].state = "rejected"
  /\ engine.loads[1].resumed
  /\ engine.last.call.op = "initialize"
  /\ engine.last.call.started
  /\ engine.last.call.load = 2
  /\ engine.last.result.ok
  /\ isReady

\* C29: an embed(text) call made while the engine is not ready (never
\* initialized, after a failed initialization, after dispose()) fails with
\* MODEL_NOT_LOADED; made while the engine is ready with a text that is empty
\* or no string it fails with INVALID_INPUT; neither invokes the model; a
\* call whose model call raised fails with EMBEDDING_FAILED; and only a call
\* made while ready, with a non-empty string, whose model call returned,
\* returns a result
C29_EmbedFailures ==
  engine.last.call.op = "embed" =>
    LET call == engine.last.call
        result == engine.last.result
        invalid == call.text.type # "string" \/ call.text.value = ""
    IN /\ (call.pc = "idle" /\ ~isReady) =>
            (~result.ok /\ result.code = "MODEL_NOT_LOADED" /\ call.invoked = 0)
       /\ (call.pc = "idle" /\ isReady /\ invalid) =>
            (~result.ok /\ result.code = "INVALID_INPUT" /\ call.invoked = 0)
       /\ (call.pc = "idle" /\ isReady) => invalid
       /\ call.pc = "raised" => (~result.ok /\ result.code = "EMBEDDING_FAILED")
       /\ call.pc # "idle" => (call.invoked = 1 /\ ~invalid)
       /\ result.ok => (call.pc = "output" /\ result.val.text = call.text.value)
\* embed of a number on a ready engine has failed, the model not invoked
C29_Witness ==
  /\ engine.last.call.op = "embed"
  /\ engine.last.call.text = NotAString
  /\ isReady
  /\ engine.last.result.code = "INVALID_INPUT"
  /\ engine.last.call.invoked = 0

\* C30: an embedBatch call on a non-empty array with a positive batchSize
\* that returns, returns as many
\* results as texts, result i being the embedding result of texts[i], in
\* whatever order the model calls of a chunk ended; a call one of whose embed
\* calls failed (on entry or in the model) fails, and a call that fails
\* returns no result
C30_BatchKeepsInputOrder ==
  (/\ engine.last.call.op = "embedBatch"
   /\ Len(engine.last.call.texts) > 0
   /\ engine.last.call.batchSize > 0) =>
    LET call == engine.last.call
        result == engine.last.result
    IN /\ result.ok =>
            /\ Len(result.val) = Len(call.texts)
            /\ \A n \in 1..Len(call.texts) :
                 /\ result.val[n].text = call.texts[n].value
                 /\ result.val[n].embedding = ModelOutput(call.texts[n].value)
            /\ Len(call.order) = Len(call.texts)
       /\ (\E j \in 1..Len(call.chunk) : call.chunk[j] # Pending /\ ~call.chunk[j].ok) =>
            ~result.ok
       /\ ~result.ok => result.val = <<>>
\* three texts in chunks of two, the second text's model call ending before
\* the first's: the results stand in the order of the texts
C30_Witness ==
  /\ engine.last.call.op = "embedBatch"
  /\ engine.last.result.ok
  /\ engine.last.call.batchSize = 2
  /\ engine.last.call.order = <<2, 1, 3>>
  /\ engine.last.call.texts = <<Str("a"), Str("b"), Str("a")>>
  /\ engine.last.result.val[2].text = "b"
  /\ engine.last.result.val[3].text = "a"

\* C31: with n texts, a positive batchSize b and an onProgress callback, the
\* j-th call of onProgress is (min(j*b, n), n), made when the texts of chunks
\* 1..j, and no others, were submitted to the model and embedded; an
\* embedBatch call in flight has made one call per finished chunk, and one
\* that returned has made ceil(n/b) calls, the last of them (n, n)
C31_ProgressAfterEachChunk ==
  \A call \in {engine.calls[c] : c \in EngineCallIds} \cup {engine.last.call} :
    (call.op = "embedBatch" /\ call.onProgress /\ call.batchSize > 0
       /\ Len(call.texts) > 0) =>
      LET n == Len(call.texts)
          b == call.batchSize
          P == call.progress
      IN /\ \A j \in 1..Len(P) :
              /\ P[j].completed = Min(j * b, n)
              /\ P[j].total = n
              /\ {P[j].order[k] : k \in 1..Len(P[j].order)} = 1..Min(j * b, n)
              /\ P[j].invoked = Min(j * b, n)
              /\ j > 1 => P[j - 1].completed < P[j].completed
         /\ call.pc = "all" => Len(P) = call.i
         /\ (call = engine.last.call /\ engine.last.result.ok) =>
              /\ Len(P) = (n + b - 1) \div b
              /\ P[Len(P)].completed = n
\* three texts in chunks of two with a callback: it was called with (2, 3)
\* and then with (3, 3)
C31_Witness ==
  /\ engine.last.call.op = "embedBatch"
  /\ engine.last.result.ok
  /\ engine.last.call.onProgress
  /\ engine.last.call.batchSize = 2
  /\ Len(engine.last.call.texts) = 3
  /\ Len(engine.last.call.progress) = 2
  /\ engine.last.call.progress[1].completed = 2
  /\ engine.last.call.progress[2].completed = 3

\* C32: once dispose() was called, isReady() is true only if a load that an
\* initialize() call started after the last dispose() has returned the model
C32_DisposedUntilInitialized ==
  (engine.disposed /\ isReady) =>
    \E n \in 1..Len(engine.loads) :
      ~engine.loads[n].stale /\ engine.loads[n].state = "resolved"

\* C33: while a searchWithFilter call waits for its query embedding, with no
\* other operation since it began, the stored sequence is the entries of
\* the sequence before the call that pass the filter, and no others; and a
\* search that returns, with no other operation since it began, returns
\* items of the sequence that was stored when it began, and no more of them
\* than that sequence holds, whatever call is in flight
C33_SwapIsObservable ==
  /\ \A c \in CallIds :
       (calls[c].op = "searchWithFilter" /\ calls[c].pc = "embed" /\ calls[c].alone) =>
         /\ StoredItems = SelectSeq(calls[c].preItems,
                                    LAMBDA r : filter(calls[c].filter, MetaOf(r)))
         /\ Items(calls[c].originalIndex, recs) = calls[c].preItems
  /\ (ret.call.op = "search" /\ ret.result.ok /\ ret.call.alone) =>
       /\ Len(ret.result.val) <= Len(ret.call.preItems)
       /\ \A i \in 1..Len(ret.result.val) :
            \E n \in 1..Len(ret.call.preItems) :
              ret.call.preItems[n].item = ret.result.val[i].item
\* a searchWithFilter call waits for its query embedding on an index of two
\* entries of which one passes its filter; a search that began and returned
\* meanwhile found one entry stored and returned one result, where it
\* returns two on the two entries
C33_Witness ==
  \E c \in CallIds :
    /\ calls[c].op = "searchWithFilter"
    /\ calls[c].pc = "embed"
    /\ Len(calls[c].originalIndex) = 2
    /\ Len(indexedItems) = 1
    /\ ret.call.op = "search"
    /\ ret.result.ok
    /\ Len(ret.call.preItems) = 1
    /\ Len(ret.result.val) = 1
    /\ Len(SearchBody(ModelOutput(ret.call.query), Items(calls[c].originalIndex, recs),
                      ret.call.config).val) = 2

\* C34: two pairs of equal score stand in topKSimilar's result in the order
\* of their positions among the candidates; and search(), on stored items
\* that differ from each other, returns and ranks results of equal score in
\* the order in which their items are stored
C34_TiesKeepOriginalOrder ==
  /\ (pure.fn = "topKSimilar" /\ pure.out.ok) =>
       \A i, j \in 1..Len(pure.out.val) :
         (i < j /\ ~Lt(pure.out.val[i][2], pure.out.val[j][2])
                /\ ~Lt(pure.out.val[j][2], pure.out.val[i][2])) =>
           pure.out.val[i][1] < pure.out.val[j][1]
  /\ (pure.fn = "search" /\ pure.out.ok
        /\ \A m, n \in 1..Len(pure.args[2]) :
             m # n => pure.args[2][m].item # pure.args[2][n].item) =>
       LET items == pure.args[2]
           results == pure.out.val
           pos(item) == CHOOSE m \in 1..Len(items) : items[m].item = item
       IN \A i, j \in 1..Len(results) :
            (i < j /\ ~Lt(results[i].score, results[j].score)
                   /\ ~Lt(results[j].score, results[i].score)) =>
              /\ pos(results[i].item) < pos(results[j].item)
              /\ results[i].rank < results[j].rank
\* a search on items b, c, a, of which b and a score the same and c scores
\* less: it returns b, a, c
C34_Witness ==
  /\ pure.fn = "search"
  /\ pure.out.ok
  /\ Len(pure.args[2]) = 3
  /\ pure.args[2][1].item = Doc("b", "y")
  /\ pure.args[2][2].item = Doc("c", "x")
  /\ pure.args[2][3].item = Doc("a", "x")
  /\ Len(pure.out.val) = 3
  /\ pure.out.val[1].item = Doc("b", "y") /\ pure.out.val[1].rank = 1
  /\ pure.out.val[2].item = Doc("a", "x") /\ pure.out.val[2].rank = 2
  /\ pure.out.val[1].score = pure.out.val[2].score
  /\ pure.out.val[3].item = Doc("c", "x")

\* C35: an index() call that failed, by validation or by the batch request,
\* with no other operation on the index during the call, leaves the stored
\* sequence as it was before the call
C35_FailedIndexKeepsState ==
  (ret.call.op = "index" /\ ~ret.result.ok /\ ret.call.alone) =>
    StoredItems = ret.call.preItems

\* C36: the entries that index() calls which completed during a
\* searchWithFilter call appended, and that no clear(), importIndex or
\* index(..., true) has removed since, are stored once the searchWithFilter
\* call has finished
C36_AppendedEntriesStay ==
  ret.call.op = "searchWithFilter" =>
    \A n \in 1..Len(ret.call.appended) :
      \E m \in 1..Len(StoredItems) : StoredItems[m] = ret.call.appended[n]

\* C37: at most one model load is in flight at any time
C37_OneLoadInFlight ==
  Cardinality({n \in 1..Len(engine.loads) : engine.loads[n].state = "pending"}) <= 1

\* C38: topKSimilar fails only with InvalidInput, and only on an empty query
\* or a k that is not positive; in a result, the pair of a candidate has the
\* score -Infinity exactly when the candidate's length differs from the
\* query's or the candidate or the query has magnitude 0 (an empty candidate
\* is of the first kind), and the candidate's cosine similarity otherwise;
\* so a non-empty query of magnitude 0 gives every candidate -Infinity and
\* the call returns
C38_OnlyInvalidInputRaised ==
  pure.fn = "topKSimilar" =>
    LET query == pure.args[1]
        candidates == pure.args[2]
        k == pure.args[3]
        zero(v) == \A i \in 1..Len(v) : v[i] = 0
        fails(c) == Len(c) # Len(query) \/ zero(c) \/ zero(query)
    IN /\ ~pure.out.ok =>
            /\ pure.out.code = "INVALID_INPUT"
            /\ Len(query) = 0 \/ k <= 0
       /\ (Len(query) > 0 /\ k > 0) => pure.out.ok
       /\ pure.out.ok =>
            \A i \in 1..Len(pure.out.val) :
              LET c == candidates[pure.out.val[i][1] + 1]
              IN IF fails(c) THEN pure.out.val[i][2] = NegInf
                 ELSE /\ pure.out.val[i][2] # NegInf
                      /\ pure.out.val[i][2] = cosineSimilarity(query, c).val
\* the query (0, 0) against a candidate of magnitude 1: the call returns,
\* and the candidate's score is -Infinity
C38_Witness ==
  /\ pure.fn = "topKSimilar"
  /\ pure.args[1] = <<0, 0>>
  /\ pure.args[2] = <<<<1, 0>>, <<3, 4>>>>
  /\ pure.args[3] = 2
  /\ pure.out.ok
  /\ Len(pure.out.val) = 2
  /\ pure.out.val[1] = <<0, NegInf>>
  /\ pure.out.val[2] = <<1, NegInf>>

\* C39: an embedBatch call on a non-empty array, whatever its batchSize, that
\* returns, returns one result per text, and a call in flight is in an
\* iteration that still has a text to take (iteration i of at most
\* Len(texts)), so that the loop ends
C39_BatchTerminates ==
  /\ (engine.last.call.op = "embedBatch" /\ Len(engine.last.call.texts) > 0
        /\ engine.last.result.ok) =>
       Len(engine.last.result.val) = Len(engine.last.call.texts)
  /\ \A c \in EngineCallIds :
       engine.calls[c].op = "embedBatch" => engine.calls[c].i < Len(engine.calls[c].texts)

====
